---- MODULE Spec2Model ----
(***************************************************************************)
(* The presenter session of src/src/contexts/ScreenShareContext.tsx        *)
(* (ScreenShareProvider) and the viewer of                                 *)
(* src/src/components/ScreenShareViewer.tsx, as a state machine.           *)
(*                                                                         *)
(* React state (useState) and refs (useRef) are the variables.  One action *)
(* is one event handler run to completion together with the render and the *)
(* effects it causes: JavaScript runs one handler at a time, and an await  *)
(* ends a step.  A callback registered on a long-lived object keeps the    *)
(* state values of the render that created it; the model stores those      *)
(* captured values with the registration.                                  *)
(***************************************************************************)
EXTENDS Integers, Sequences, FiniteSets, TLC

\* Viewer identities ("viewer-<room>-<suffix>", ScreenShareViewer.tsx:98).
Viewers == {"v1", "v2"}

\* Room identifiers handed to initializeRoom.
Rooms == {"r1", "r2"}

\* startSharing invocations that may be awaiting media acquisition at once.
MaxPendingShares == 2

\* Control messages in flight to one viewer.
MaxInbox == 2

\* Presenter->viewer media calls to one viewer that are open at once.
MaxOpenCalls == 2

VARIABLES
    \* ---- ScreenShareProvider: React state
    status,               \* PresenterStatus
    isSharing,
    viewerCount,
    error,                \* "null" or the kind of error last recorded
    mutedViewers,
    \* ---- ScreenShareProvider: refs
    peerRef,              \* "null" or the room whose presenter peer is live
    streamRef,            \* "null", "video" or "video+audio"
    viewerConnections,    \* viewer id -> [isMutedByPresenter]
    viewerMediaCalls,     \* viewer ids with a tracked presenter->viewer call
    viewerAudioElements,  \* viewer ids with an audio sink
    isSpeakerMuted,
    mutedAudioElements,   \* viewer ids whose audio sink has muted = true
    hasViewerAudio,
    isViewerAudioEnabled,
    recentActivity,       \* the activity log: [type, viewerId, timestamp]
    activityTimers,       \* timestamps of the expiry timers not yet fired,
                          \* in the order they were set
    now,                  \* Date.now()
    \* ---- ScreenSharePresenter only (the presenter that mixes viewer audio)
    viewerAudioStreams,   \* viewer id -> the stored stream has an audio track
    audioContextRef,      \* "null" or "running"
    mixedOutput,          \* viewer ids whose stream feeds the stream
                          \* published in viewerAudioRef.srcObject
    viewerAudioMuted,     \* viewerAudioRef.muted
    \* ---- registrations (closures)
    mounted,              \* the provider's mount effects have run
    dataListener,         \* "none", or the isSharing captured by the
                          \* handleDataConnection attached to the live peer
    callListener,         \* handleCall is attached to the live peer
    pendingShares,        \* [display, mic]: startSharing calls at each await
    \* ---- transport (PeerJS), presenter side
    signal,               \* "none", "connecting", "open": the identity claim
    link,                 \* per viewer: the control link's lifecycle
    hnd,                  \* per viewer: "none", or the isSharing captured by
                          \* the handlers attached to its control link
    inbox,                \* per viewer: control messages sent, not yet read
    audioCall,            \* per viewer: "none", or the isSpeakerMuted captured
                          \* by the handlers of a viewer->presenter call that
                          \* handleCall answered
    openCalls,            \* per viewer whose media links are followed: the
                          \* calls placed by callViewer that are not closed,
                          \* whether their handle is in viewerMediaCalls or not
    \* ---- ScreenShareViewer (one instance per viewer id)
    vMutedByPresenter,    \* isMutedByPresenter
    vIsMicEnabled,
    vIsMicMuted,
    vMicTrack,            \* "null" (micStreamRef), "enabled", "disabled"
    vMicPending,          \* "none", or the isMutedByPresenter captured by an
                          \* enableMicrophone call awaiting getUserMedia
    vStatus,              \* ViewerStatus
    vConn,                \* connectionRef is set
    vCall,                \* callRef is set
    vMicCall,             \* micCallRef is set
    vVideo,               \* videoRef.srcObject is set
    \* ---- observation
    ops                   \* what the last handler did on the transport, in order

\* The audio sinks' playback state, the activity log, the mixer.
avars == <<mutedAudioElements, hasViewerAudio, isViewerAudioEnabled>>
lvars == <<recentActivity, activityTimers, now>>
mvars == <<viewerAudioStreams, audioContextRef, mixedOutput, viewerAudioMuted>>
pvars == <<status, isSharing, viewerCount, error, mutedViewers, peerRef,
           streamRef, viewerConnections, viewerMediaCalls,
           viewerAudioElements, isSpeakerMuted, mounted, dataListener, callListener,
           pendingShares, avars, lvars, mvars>>
tvars == <<signal, link, hnd, inbox, audioCall, openCalls>>
\* The viewer's connection refs and video sink.
rvars == <<vConn, vCall, vMicCall, vVideo>>
vvars == <<vMutedByPresenter, vIsMicEnabled, vIsMicMuted, vMicTrack,
           vMicPending, vStatus, rvars>>
vars == <<pvars, tvars, vvars, ops>>

Registry == DOMAIN viewerConnections

\* A set as a sequence: the order a Map's forEach visits its entries.
RECURSIVE SetToSeq(_)
SetToSeq(S) ==
    IF S = {} THEN <<>>
    ELSE LET x == CHOOSE y \in S : TRUE IN <<x>> \o SetToSeq(S \ {x})

\* The sequence q with f applied to each element.
MapSeq(q, f(_)) == [i \in 1..Len(q) |-> f(q[i])]

\* The function m without key k (Map.delete).
MapDelete(m, k) == [x \in (DOMAIN m) \ {k} |-> m[x]]

\* The function m with key k set to val (Map.set).
MapSet(m, k, val) == [x \in (DOMAIN m) \cup {k} |-> IF x = k THEN val ELSE m[x]]

EmptyMap == [x \in {} |-> FALSE]

BoolTag(b) == IF b THEN "T" ELSE "F"

InitSession ==
    /\ status = "idle"
    /\ isSharing = FALSE
    /\ viewerCount = 0
    /\ error = "null"
    /\ mutedViewers = {}
    /\ peerRef = "null"
    /\ streamRef = "null"
    /\ viewerConnections = EmptyMap
    /\ viewerMediaCalls = {}
    /\ viewerAudioElements = {}
    /\ isSpeakerMuted = FALSE
    /\ mutedAudioElements = {}
    /\ hasViewerAudio = FALSE
    /\ isViewerAudioEnabled = FALSE
    /\ recentActivity = <<>>
    /\ activityTimers = <<>>
    /\ now = 0
    /\ viewerAudioStreams = EmptyMap
    /\ audioContextRef = "null"
    /\ mixedOutput = {}
    /\ viewerAudioMuted = TRUE
    /\ mounted = FALSE
    /\ dataListener = "none"
    /\ callListener = FALSE
    /\ pendingShares = [display |-> 0, mic |-> 0]
    /\ signal = "none"
    /\ link = [v \in Viewers |-> "none"]
    /\ hnd = [v \in Viewers |-> "none"]
    /\ inbox = [v \in Viewers |-> <<>>]
    /\ audioCall = [v \in Viewers |-> "none"]
    /\ vMutedByPresenter = [v \in Viewers |-> FALSE]
    /\ vIsMicEnabled = [v \in Viewers |-> FALSE]
    /\ vIsMicMuted = [v \in Viewers |-> FALSE]
    /\ vMicTrack = [v \in Viewers |-> "null"]
    /\ vMicPending = [v \in Viewers |-> "none"]
    /\ vStatus = [v \in Viewers |-> "connecting"]
    /\ vConn = [v \in Viewers |-> FALSE]
    /\ vCall = [v \in Viewers |-> FALSE]
    /\ vMicCall = [v \in Viewers |-> FALSE]
    /\ vVideo = [v \in Viewers |-> FALSE]
    /\ ops = <<>>

\* The session after construction.  The media links themselves are followed
\* only where a specification starts from InitCalls; elsewhere the calls
\* placed and closed are seen in ops alone.
Init == InitSession /\ openCalls = [v \in {} |-> 0]

InitCalls == InitSession /\ openCalls = [v \in Viewers |-> 0]

(***************************************************************************)
(* Effects.  The provider has two effects that register a listener on      *)
(* peerRef.current: one with dependencies [isSharing, ...stable callbacks] *)
(* (lines 453-513) and one with [isSpeakerMuted, cleanupViewerAudio]       *)
(* (lines 516-567).  Each runs at mount and again only after a render in   *)
(* which its dependency changed; the run first detaches the listener of    *)
(* the previous run and attaches a new one if peerRef.current is set.      *)
(***************************************************************************)

\* The connection listener after a handler that took isSharing from
\* oldSharing to newSharing and the peer from oldPeer to newPeer.
DataListenerAfter(oldSharing, newSharing, oldPeer, newPeer, cur) ==
    IF newSharing # oldSharing
    THEN IF newPeer = "null" THEN "none" ELSE BoolTag(newSharing)
    ELSE IF newPeer # oldPeer THEN "none" ELSE cur

\* The call listener, likewise, with isSpeakerMuted as the dependency.
CallListenerAfter(oldMuted, newMuted, oldPeer, newPeer, cur) ==
    IF newMuted # oldMuted
    THEN newPeer # "null"
    ELSE IF newPeer # oldPeer THEN FALSE ELSE cur

\* Both effects after a handler, from the primed state.
RunEffects ==
    /\ dataListener' = DataListenerAfter(isSharing, isSharing', peerRef,
                                         peerRef', dataListener)
    /\ callListener' = CallListenerAfter(isSpeakerMuted, isSpeakerMuted',
                                         peerRef, peerRef', callListener)

(***************************************************************************)
(* Helpers of the provider.                                                *)
(***************************************************************************)

\* sendToViewer without the test of line 130: the message goes out for any
\* viewer id.
sendToViewer_unguarded(viewerId, type) ==
    << <<"send", viewerId, type>> >>

\* sendToViewer: the messages it puts on the wire (none if the viewer has no
\* record or its connection is not open).
sendToViewer(viewerId, type) ==
    IF viewerId \in Registry /\ link[viewerId] = "open"
    THEN << <<"send", viewerId, type>> >>
    ELSE <<>>

\* broadcastToViewers: one send per record whose connection is open.
broadcastToViewers(type) ==
    LET open == {v \in Registry : link[v] = "open"}
    IN  MapSeq(SetToSeq(open), LAMBDA v : <<"send", v, type>>)

\* callViewer: the peer.call it places (none without a peer).
callViewer(viewerId) ==
    IF peerRef = "null" THEN <<>> ELSE << <<"call", viewerId>> >>

\* The viewers a sequence of transport operations sent `type` to / called.
SentTo(q, v, type) == {i \in 1..Len(q) : q[i] = <<"send", v, type>>}
CallsTo(q, v) == {i \in 1..Len(q) : q[i] = <<"call", v>>}

\* The closes of v's media calls in a sequence of transport operations.
ClosesOf(q, v) == {i \in 1..Len(q) : q[i] = <<"closeCall", v>>}

\* The followed media links after a handler whose transport operations
\* were q: each peer.call opens one, each call.close() closes one.
CountCalls(q) ==
    openCalls' = [v \in DOMAIN openCalls |->
                    openCalls[v] + Cardinality(CallsTo(q, v))
                                 - Cardinality(ClosesOf(q, v))]

\* Room for the calls of q.
CallRoom(q) ==
    \A v \in DOMAIN openCalls :
        openCalls[v] + Cardinality(CallsTo(q, v)) <= MaxOpenCalls

\* addViewerActivity(type, viewerId), lines 107-125: the event it records.
addViewerActivity(type, viewerId) == << <<"activity", type, viewerId>> >>

\* The activity events of q of one type for v.
ActivityOf(q, type, v) == {i \in 1..Len(q) : q[i] = <<"activity", type, v>>}

\* The control messages of q addressed to v, in order.
RECURSIVE MessagesFor(_, _)
MessagesFor(q, v) ==
    IF q = <<>> THEN <<>>
    ELSE LET rest == MessagesFor(Tail(q), v)
         IN  IF Head(q)[1] = "send" /\ Head(q)[2] = v
             THEN <<Head(q)[3]>> \o rest ELSE rest

\* The wire after a handler whose transport operations were q.  With
\* wired = FALSE the viewers' end is not part of the system and what is
\* sent is observed in ops only.
Deliver(q, wired) ==
    inbox' = [v \in Viewers |->
                IF wired THEN inbox[v] \o MessagesFor(q, v) ELSE inbox[v]]

\* Room on the wire for what a handler may send to each viewer.
InboxRoom(n) == \A v \in Viewers : Len(inbox[v]) + n <= MaxInbox

(***************************************************************************)
(* Room initialization and the presenter peer's own events.                *)
(***************************************************************************)

\* endMeetingOps with the links closed before the broadcast: no link is open
\* any more when broadcastToViewers runs, and nothing is sent.
endMeetingOps_closeFirst ==
    MapSeq(SetToSeq(viewerMediaCalls), LAMBDA v : <<"closeCall", v>>)
    \o MapSeq(SetToSeq(Registry), LAMBDA v : <<"closeConn", v>>)
    \o MapSeq(SetToSeq(Registry), LAMBDA v : <<"delete", v>>)
    \o MapSeq(SetToSeq(viewerAudioElements), LAMBDA v : <<"removeAudio", v>>)

\* What endMeeting does on the transport: the meeting-ended broadcast, then
\* the close of every tracked media call, then the close of every registered
\* control link (each close runs the link's close handler, which records a
\* leave), then the registry cleared, then every audio sink removed.
endMeetingOps ==
    broadcastToViewers("meeting-ended")
    \o MapSeq(SetToSeq(viewerMediaCalls), LAMBDA v : <<"closeCall", v>>)
    \o MapSeq(SetToSeq(Registry), LAMBDA v : <<"closeConn", v>>)
    \o MapSeq(SetToSeq({v \in Registry : link[v] = "open" /\ hnd[v] # "none"}),
              LAMBDA v : <<"activity", "leave", v>>)
    \o MapSeq(SetToSeq(Registry), LAMBDA v : <<"delete", v>>)
    \o MapSeq(SetToSeq(viewerAudioElements), LAMBDA v : <<"removeAudio", v>>)

\* endMeetingState without the clearing of the audio sinks (lines 239-243).
endMeetingState_keepAudio ==
    /\ streamRef' = "null"
    /\ viewerMediaCalls' = {}
    /\ viewerConnections' = EmptyMap
    /\ UNCHANGED <<viewerAudioElements, mutedAudioElements>>
    /\ isSharing' = FALSE
    /\ viewerCount' = 0
    /\ mutedViewers' = {}
    /\ isViewerAudioEnabled' = FALSE
    /\ isSpeakerMuted' = FALSE
    /\ hasViewerAudio' = FALSE

\* endMeeting's writes to refs and state (resetAllState, lines 204-212,
\* included), status apart.  PeerJS emits
\* 'close' inside connection.close(), so the close handlers of the closed
\* links run inside endMeeting; what they write (registry, media calls,
\* audio sink, muted set, viewerCount) is overwritten by the lines after.
endMeetingState ==
    /\ streamRef' = "null"
    /\ viewerMediaCalls' = {}
    /\ viewerConnections' = EmptyMap
    /\ viewerAudioElements' = {}
    /\ mutedAudioElements' = {}
    /\ isSharing' = FALSE
    /\ viewerCount' = 0
    /\ mutedViewers' = {}
    /\ isViewerAudioEnabled' = FALSE
    /\ isSpeakerMuted' = FALSE
    /\ hasViewerAudio' = FALSE

\* initializeRoom(newRoomId), lines 408-450.
initializeRoom(newRoomId, wired) ==
    IF peerRef = newRoomId
    THEN /\ ops' = <<>>
         /\ UNCHANGED <<pvars, tvars>>
    ELSE /\ IF peerRef # "null"
            THEN \* endMeeting(), then peerRef.current.destroy(), which
                 \* closes every connection of the old peer
                 /\ InboxRoom(1)
                 /\ endMeetingState
                 /\ ops' = endMeetingOps \o << <<"destroy">> >>
                 /\ Deliver(endMeetingOps, wired)
                 /\ link' = [v \in Viewers |->
                               IF link[v] = "none" THEN "none" ELSE "closed"]
                 /\ audioCall' = [v \in Viewers |-> "none"]
                 /\ openCalls' = [v \in DOMAIN openCalls |-> 0]
            ELSE /\ ops' = <<>>
                 /\ UNCHANGED <<streamRef, viewerMediaCalls, viewerConnections,
                                viewerAudioElements, isSharing, viewerCount,
                                mutedViewers, isSpeakerMuted, avars, link,
                                inbox, audioCall, openCalls>>
         /\ status' = "connecting"
         /\ error' = "null"
         /\ peerRef' = newRoomId
         /\ signal' = "connecting"
         /\ UNCHANGED <<hnd, pendingShares, lvars, mvars>>

\* The application opens on a page other than the presenter's: the provider
\* mounts and its effects run while peerRef.current is null.
MountElsewhere ==
    /\ ~mounted
    /\ mounted' = TRUE
    /\ ops' = <<>>
    /\ UNCHANGED <<status, isSharing, viewerCount, error, mutedViewers,
                   peerRef, streamRef, viewerConnections, viewerMediaCalls,
                   viewerAudioElements, isSpeakerMuted, dataListener,
                   callListener, pendingShares, tvars, vvars>>
    /\ UNCHANGED <<avars, lvars, mvars>>

\* The application opens on /presenter/<room>: provider and page mount in
\* one commit, the page's effect (ScreenSharePresenterUI.tsx:42-44) runs
\* before the provider's, so both listeners find the peer.
MountPresenterPage(r) ==
    /\ ~mounted
    /\ mounted' = TRUE
    /\ initializeRoom(r, FALSE)
    /\ dataListener' = BoolTag(isSharing')
    /\ callListener' = TRUE
    /\ UNCHANGED vvars

\* The presenter page mounts, or its roomId changes, after the provider has
\* mounted: its effect calls initializeRoom.
InitializeRoom(r, wired) ==
    /\ mounted
    /\ initializeRoom(r, wired)
    /\ RunEffects
    /\ UNCHANGED <<mounted, vvars>>

\* peer.on('open'), lines 433-436.
PeerOpen ==
    /\ signal = "connecting"
    /\ signal' = "open"
    /\ status' = "ready"
    /\ ops' = <<>>
    /\ UNCHANGED <<isSharing, viewerCount, error, mutedViewers, peerRef,
                   streamRef, viewerConnections, viewerMediaCalls,
                   viewerAudioElements, isSpeakerMuted, mounted, dataListener,
                   callListener, pendingShares, link, hnd, inbox, audioCall, openCalls,
                   vvars>>
    /\ UNCHANGED <<avars, lvars, mvars>>

\* peer.on('error'), lines 438-442.
PeerError ==
    /\ signal # "none"
    /\ error' = "peer"
    /\ status' = "error"
    /\ ops' = <<>>
    /\ UNCHANGED <<isSharing, viewerCount, mutedViewers, peerRef, streamRef,
                   viewerConnections, viewerMediaCalls, viewerAudioElements,
                   isSpeakerMuted, mounted, dataListener, callListener,
                   pendingShares, tvars, vvars>>
    /\ UNCHANGED <<avars, lvars, mvars>>

\* peer.on('disconnected'), lines 444-447: the handler asks the transport to
\* reconnect, which ends in another 'open'.
PeerDisconnected ==
    /\ signal = "open"
    /\ signal' = "connecting"
    /\ ops' = << <<"reconnect">> >>
    /\ UNCHANGED <<pvars, link, hnd, inbox, audioCall, openCalls, vvars>>

(***************************************************************************)
(* Control links: handleDataConnection, lines 457-506.                     *)
(***************************************************************************)

\* peer.on('connection'): a viewer's control link arrives at the presenter
\* peer.  If handleDataConnection is attached it registers the open, close
\* and error handlers, which keep the isSharing of the render that created
\* the listener; with no listener attached the link gets no handlers.
Connection(v) ==
    /\ signal = "open"
    /\ link[v] \in {"none", "closed"}
    /\ link' = [link EXCEPT ![v] = "received"]
    /\ hnd' = [hnd EXCEPT ![v] = dataListener]
    /\ ops' = <<>>
    /\ UNCHANGED <<pvars, signal, inbox, audioCall, openCalls, vvars>>

\* conn.on('open'), lines 460-476.
onConnOpen(v) ==
    LET calling == streamRef # "null" /\ hnd[v] = "T"
    IN  /\ viewerConnections' =
               MapSet(viewerConnections, v, [isMutedByPresenter |-> FALSE])
        /\ viewerCount' = Cardinality(DOMAIN viewerConnections')
        /\ ops' = addViewerActivity("join", v)
                   \o (IF calling THEN callViewer(v) ELSE <<>>)
        /\ viewerMediaCalls' =
               IF calling /\ peerRef # "null"
               THEN viewerMediaCalls \cup {v} ELSE viewerMediaCalls
        /\ UNCHANGED <<viewerAudioElements, mutedAudioElements,
                       hasViewerAudio, mutedViewers>>

\* cleanupViewerAudio, lines 191-201.
cleanupViewerAudio(v) ==
    /\ viewerAudioElements' = viewerAudioElements \ {v}
    /\ mutedAudioElements' = mutedAudioElements \ {v}
    /\ hasViewerAudio' =
           IF v \in viewerAudioElements /\ viewerAudioElements \ {v} = {}
           THEN FALSE ELSE hasViewerAudio

\* onConnClose without the deletion of the viewer's media handle (line 481).
onConnClose_keepCall(v) ==
    /\ viewerConnections' = MapDelete(viewerConnections, v)
    /\ UNCHANGED viewerMediaCalls
    /\ cleanupViewerAudio(v)
    /\ mutedViewers' = mutedViewers \ {v}
    /\ viewerCount' = Cardinality(DOMAIN viewerConnections')
    /\ ops' = addViewerActivity("leave", v)

\* conn.on('close'), lines 478-491.
onConnClose(v) ==
    /\ viewerConnections' = MapDelete(viewerConnections, v)
    /\ viewerMediaCalls' = viewerMediaCalls \ {v}
    /\ cleanupViewerAudio(v)
    /\ mutedViewers' = mutedViewers \ {v}
    /\ viewerCount' = Cardinality(DOMAIN viewerConnections')
    /\ ops' = addViewerActivity("leave", v)

\* onConnError without the setViewerCount of line 503.
onConnError_staleCount(v) ==
    /\ viewerConnections' = MapDelete(viewerConnections, v)
    /\ viewerMediaCalls' = viewerMediaCalls \ {v}
    /\ cleanupViewerAudio(v)
    /\ mutedViewers' = mutedViewers \ {v}
    /\ UNCHANGED viewerCount
    /\ ops' = <<>>

\* onConnError clearing the whole muted set instead of deleting one id.
onConnError_clearAllMuted(v) ==
    /\ viewerConnections' = MapDelete(viewerConnections, v)
    /\ viewerMediaCalls' = viewerMediaCalls \ {v}
    /\ cleanupViewerAudio(v)
    /\ mutedViewers' = {}
    /\ viewerCount' = Cardinality(DOMAIN viewerConnections')
    /\ ops' = <<>>

\* conn.on('error'), lines 493-505.
onConnError(v) ==
    /\ viewerConnections' = MapDelete(viewerConnections, v)
    /\ viewerMediaCalls' = viewerMediaCalls \ {v}
    /\ cleanupViewerAudio(v)
    /\ mutedViewers' = mutedViewers \ {v}
    /\ viewerCount' = Cardinality(DOMAIN viewerConnections')
    /\ ops' = <<>>

NoHandler ==
    /\ ops' = <<>>
    /\ UNCHANGED <<viewerConnections, viewerCount, viewerMediaCalls,
                   viewerAudioElements, mutedAudioElements, hasViewerAudio,
                   mutedViewers>>

\* The control link of v opens.
ConnOpen(v) ==
    /\ link[v] = "received"
    /\ link' = [link EXCEPT ![v] = "open"]
    /\ IF hnd[v] # "none" THEN onConnOpen(v) ELSE NoHandler
    /\ CallRoom(ops')
    /\ CountCalls(ops')
    /\ UNCHANGED <<status, isSharing, error, peerRef, streamRef,
                   isSpeakerMuted, mounted, dataListener, callListener,
                   pendingShares, signal, hnd, inbox, audioCall, vvars>>
    /\ UNCHANGED <<isViewerAudioEnabled, lvars, mvars>>

\* The transport reports the close of v's control link: of an open link, or
\* of one that has reported an error while open.
ConnClose(v) ==
    /\ link[v] \in {"open", "failed"}
    /\ link' = [link EXCEPT ![v] = "closed"]
    /\ IF hnd[v] # "none" THEN onConnClose(v) ELSE NoHandler
    /\ UNCHANGED <<status, isSharing, error, peerRef, streamRef,
                   isSpeakerMuted, mounted, dataListener, callListener,
                   pendingShares, signal, hnd, inbox, audioCall, openCalls, vvars>>
    /\ UNCHANGED <<isViewerAudioEnabled, lvars, mvars>>

\* The control link of v fails, during negotiation or while open.  The
\* transport gives up the link; when it was open its 'close' is still to
\* come, and the close handler then finds the record already gone.
ConnError(v) ==
    /\ link[v] \in {"received", "open"}
    /\ link' = [link EXCEPT ![v] = IF link[v] = "open" THEN "failed"
                                   ELSE "closed"]
    /\ IF hnd[v] # "none" THEN onConnError(v) ELSE NoHandler
    /\ UNCHANGED <<status, isSharing, error, peerRef, streamRef,
                   isSpeakerMuted, mounted, dataListener, callListener,
                   pendingShares, signal, hnd, inbox, audioCall, openCalls, vvars>>
    /\ UNCHANGED <<isViewerAudioEnabled, lvars, mvars>>

\* MediaCallClosed calling the viewer again at once while the share is on.
MediaCallClosed_retry(v) ==
    /\ v \in viewerMediaCalls
    /\ UNCHANGED openCalls
    /\ IF streamRef # "null"
       THEN /\ ops' = callViewer(v)
            /\ UNCHANGED viewerMediaCalls
       ELSE /\ ops' = <<>>
            /\ viewerMediaCalls' = viewerMediaCalls \ {v}
    /\ UNCHANGED <<status, isSharing, viewerCount, error, mutedViewers,
                   peerRef, streamRef, viewerConnections,
                   viewerAudioElements, isSpeakerMuted, mounted, dataListener,
                   callListener, pendingShares, signal, link, hnd, inbox,
                   audioCall, vvars>>
    /\ UNCHANGED <<avars, lvars, mvars>>

\* call.on('close') / call.on('error') of a presenter->viewer media call,
\* lines 179-187: one of the open calls to v ends, the one whose handle is
\* in the map or an earlier one, and its handler deletes the entry of v.
MediaCallClosed(v) ==
    /\ IF v \in DOMAIN openCalls THEN openCalls[v] > 0
       ELSE v \in viewerMediaCalls
    /\ openCalls' = [w \in DOMAIN openCalls |->
                       IF w = v THEN openCalls[w] - 1 ELSE openCalls[w]]
    /\ viewerMediaCalls' = viewerMediaCalls \ {v}
    /\ ops' = <<>>
    /\ UNCHANGED <<status, isSharing, viewerCount, error, mutedViewers,
                   peerRef, streamRef, viewerConnections,
                   viewerAudioElements, isSpeakerMuted, mounted, dataListener,
                   callListener, pendingShares, signal, link, hnd, inbox,
                   audioCall, vvars>>
    /\ UNCHANGED <<avars, lvars, mvars>>

(***************************************************************************)
(* Sharing: startSharing (lines 284-345), stopSharing (257-281),           *)
(* endMeeting (215-254).                                                   *)
(***************************************************************************)

\* startSharing is called and suspends at getDisplayMedia.  The page offers
\* it while status is ready and isSharing is false
\* (ScreenSharePresenterUI.tsx:124-127), which stays so during the await.
StartSharing ==
    /\ status = "ready"
    /\ ~isSharing
    /\ pendingShares.display + pendingShares.mic < MaxPendingShares
    /\ pendingShares' = [pendingShares EXCEPT !.display = @ + 1]
    /\ ops' = <<>>
    /\ UNCHANGED <<status, isSharing, viewerCount, error, mutedViewers,
                   peerRef, streamRef, viewerConnections, viewerMediaCalls,
                   viewerAudioElements, isSpeakerMuted, mounted, dataListener,
                   callListener, tvars, vvars>>
    /\ UNCHANGED <<avars, lvars, mvars>>

\* DisplaySettled with a failed capture also moving status to error.
DisplaySettled_statusError(granted) ==
    /\ pendingShares.display > 0
    /\ IF granted
       THEN /\ pendingShares' = [display |-> pendingShares.display - 1,
                                 mic |-> pendingShares.mic + 1]
            /\ UNCHANGED <<error, status>>
       ELSE /\ pendingShares' = [pendingShares EXCEPT !.display = @ - 1]
            /\ error' = "share"
            /\ status' = "error"
    /\ ops' = <<>>
    /\ UNCHANGED <<isSharing, viewerCount, mutedViewers, peerRef,
                   streamRef, viewerConnections, viewerMediaCalls,
                   viewerAudioElements, isSpeakerMuted, mounted, dataListener,
                   callListener, tvars, vvars>>
    /\ UNCHANGED <<avars, lvars, mvars>>

\* getDisplayMedia settles.  granted = FALSE is a rejection or a stream
\* without a video track: the catch block records the error.
DisplaySettled(granted) ==
    /\ pendingShares.display > 0
    /\ IF granted
       THEN /\ pendingShares' = [display |-> pendingShares.display - 1,
                                 mic |-> pendingShares.mic + 1]
            /\ UNCHANGED error
       ELSE /\ pendingShares' = [pendingShares EXCEPT !.display = @ - 1]
            /\ error' = "share"
    /\ ops' = <<>>
    /\ UNCHANGED <<status, isSharing, viewerCount, mutedViewers, peerRef,
                   streamRef, viewerConnections, viewerMediaCalls,
                   viewerAudioElements, isSpeakerMuted, mounted, dataListener,
                   callListener, tvars, vvars>>
    /\ UNCHANGED <<avars, lvars, mvars>>

\* The fan-out loop of startSharing, lines 336-338: the calls it places.
fanOut == 
    IF peerRef = "null" THEN <<>>
    ELSE MapSeq(SetToSeq(Registry), LAMBDA v : <<"call", v>>)

\* MicSettled treating a denied microphone like a denied display capture:
\* the error is recorded and sharing does not start.
MicSettled_micRequired(granted) ==
    /\ pendingShares.mic > 0
    /\ pendingShares' = [pendingShares EXCEPT !.mic = @ - 1]
    /\ IF granted
       THEN /\ streamRef' = "video+audio"
            /\ isSharing' = TRUE
            /\ status' = "sharing"
            /\ ops' = fanOut
            /\ viewerMediaCalls' =
                   viewerMediaCalls \cup {v \in Viewers : CallsTo(fanOut, v) # {}}
            /\ UNCHANGED error
       ELSE /\ error' = "share"
            /\ ops' = <<>>
            /\ UNCHANGED <<streamRef, isSharing, status, viewerMediaCalls>>
    /\ UNCHANGED <<peerRef, isSpeakerMuted>>
    /\ RunEffects
    /\ CountCalls(ops')
    /\ UNCHANGED <<viewerCount, mutedViewers, viewerConnections,
                   viewerAudioElements, mounted, signal, link, hnd, inbox,
                   audioCall, vvars>>
    /\ UNCHANGED <<avars, lvars, mvars>>

\* getUserMedia settles and startSharing runs to its end: the outbound
\* stream is stored, the state is set and every registered viewer is called.
MicSettled(granted) ==
    /\ pendingShares.mic > 0
    /\ pendingShares' = [pendingShares EXCEPT !.mic = @ - 1]
    /\ streamRef' = IF granted THEN "video+audio" ELSE "video"
    /\ isSharing' = TRUE
    /\ status' = "sharing"
    /\ ops' = fanOut
    /\ viewerMediaCalls' =
           viewerMediaCalls \cup {v \in Viewers : CallsTo(fanOut, v) # {}}
    /\ CallRoom(fanOut)
    /\ CountCalls(fanOut)
    /\ UNCHANGED <<peerRef, isSpeakerMuted>>
    /\ RunEffects
    /\ UNCHANGED <<viewerCount, error, mutedViewers, viewerConnections,
                   viewerAudioElements, mounted, signal, link, hnd, inbox,
                   audioCall, vvars>>
    /\ UNCHANGED <<avars, lvars, mvars>>

\* stopSharing closing the media calls but leaving their handles in the map.
stopSharing_keepHandles(capturedStatus) ==
    /\ streamRef' = "null"
    /\ ops' = MapSeq(SetToSeq(viewerMediaCalls), LAMBDA v : <<"closeCall", v>>)
    /\ UNCHANGED viewerMediaCalls
    /\ isSharing' = FALSE
    /\ status' = IF capturedStatus # "error" THEN "ready" ELSE status

\* stopSharing, lines 257-281, as created by a render whose status was
\* capturedStatus (its dependency, line 281).
stopSharing(capturedStatus) ==
    /\ streamRef' = "null"
    /\ ops' = MapSeq(SetToSeq(viewerMediaCalls), LAMBDA v : <<"closeCall", v>>)
    /\ viewerMediaCalls' = {}
    /\ isSharing' = FALSE
    /\ status' = IF capturedStatus # "error" THEN "ready" ELSE status

\* stopSharing called from the page: the callback of the current render.
\* The page offers it while isSharing is true
\* (ScreenSharePresenterUI.tsx:124-141).
StopSharing ==
    /\ isSharing
    /\ stopSharing(status)
    /\ CountCalls(ops')
    /\ UNCHANGED <<peerRef, isSpeakerMuted>>
    /\ RunEffects
    /\ UNCHANGED <<viewerCount, error, mutedViewers, viewerConnections,
                   viewerAudioElements, mounted, pendingShares, signal, link,
                   hnd, inbox, audioCall, vvars>>
    /\ UNCHANGED <<avars, lvars, mvars>>

\* The status of the render whose startSharing was invoked: the page
\* enables the button only while status is ready.
StartedWithStatus == "ready"

\* videoTrack.onended, lines 329-332: the capture of the stream in
\* streamRef is ended from the browser's own controls.  It calls the
\* stopSharing that the invoked startSharing closed over.
TrackEnded ==
    /\ streamRef # "null"
    /\ stopSharing(StartedWithStatus)
    /\ CountCalls(ops')
    /\ UNCHANGED <<peerRef, isSpeakerMuted>>
    /\ RunEffects
    /\ UNCHANGED <<viewerCount, error, mutedViewers, viewerConnections,
                   viewerAudioElements, mounted, pendingShares, signal, link,
                   hnd, inbox, audioCall, vvars>>
    /\ UNCHANGED <<avars, lvars, mvars>>

\* endMeeting, lines 215-254.
endMeeting(wired) ==
    /\ ops' = endMeetingOps
    /\ Deliver(endMeetingOps, wired)
    /\ endMeetingState
    /\ status' = "ready"
    /\ link' = [v \in Viewers |-> IF v \in Registry THEN "closed" ELSE link[v]]

\* endMeeting called from the page, which offers it while isSharing is true
\* (ScreenSharePresenterUI.tsx:124-158).
EndMeeting(wired) ==
    /\ isSharing
    /\ InboxRoom(1)
    /\ endMeeting(wired)
    /\ CountCalls(ops')
    /\ UNCHANGED peerRef
    /\ RunEffects
    /\ UNCHANGED <<error, mounted, pendingShares, signal, hnd, audioCall,
                   vvars>>
    /\ UNCHANGED <<lvars, mvars>>

(***************************************************************************)
(* Mute control: muteViewer (lines 145-153), unmuteViewer (156-168).       *)
(***************************************************************************)

\* The registry vc with the flag of viewerId set to b, if it has a record.
setMutedFlag(vc, viewerId, b) ==
    IF viewerId \in DOMAIN vc
    THEN [vc EXCEPT ![viewerId].isMutedByPresenter = b]
    ELSE vc

\* What muteViewer makes of the registry vc and the muted set mv.
muteViewerState(vc, mv, viewerId) ==
    [viewerConnections |-> setMutedFlag(vc, viewerId, TRUE),
     mutedViewers |-> mv \cup {viewerId}]

\* unmuteViewerState flipping the flag and the set's membership instead of
\* clearing them.
unmuteViewerState_toggle(vc, mv, viewerId) ==
    [viewerConnections |->
        IF viewerId \in DOMAIN vc
        THEN [vc EXCEPT ![viewerId].isMutedByPresenter = ~@]
        ELSE vc,
     mutedViewers |->
        IF viewerId \in mv THEN mv \ {viewerId} ELSE mv \cup {viewerId}]

\* What unmuteViewer makes of the registry vc and the muted set mv.
unmuteViewerState(vc, mv, viewerId) ==
    [viewerConnections |-> setMutedFlag(vc, viewerId, FALSE),
     mutedViewers |-> mv \ {viewerId}]

\* muteViewer sending through broadcastToViewers instead of sendToViewer.
muteViewer_broadcast(viewerId, wired) ==
    LET after == muteViewerState(viewerConnections, mutedViewers, viewerId)
    IN  /\ ops' = broadcastToViewers("viewer-muted")
        /\ Deliver(broadcastToViewers("viewer-muted"), wired)
        /\ viewerConnections' = after.viewerConnections
        /\ mutedViewers' = after.mutedViewers

muteViewer(viewerId, wired) ==
    LET after == muteViewerState(viewerConnections, mutedViewers, viewerId)
    IN  /\ ops' = sendToViewer(viewerId, "viewer-muted")
        /\ Deliver(sendToViewer(viewerId, "viewer-muted"), wired)
        /\ viewerConnections' = after.viewerConnections
        /\ mutedViewers' = after.mutedViewers

unmuteViewer(viewerId, wired) ==
    LET after == unmuteViewerState(viewerConnections, mutedViewers, viewerId)
    IN  /\ ops' = sendToViewer(viewerId, "viewer-unmuted")
        /\ Deliver(sendToViewer(viewerId, "viewer-unmuted"), wired)
        /\ viewerConnections' = after.viewerConnections
        /\ mutedViewers' = after.mutedViewers

MuteViewer(v, wired) ==
    /\ mounted
    /\ InboxRoom(1)
    /\ muteViewer(v, wired)
    /\ UNCHANGED <<status, isSharing, viewerCount, error, peerRef, streamRef,
                   viewerMediaCalls, viewerAudioElements, isSpeakerMuted,
                   mounted, dataListener, callListener, pendingShares,
                   signal, link, hnd, audioCall, openCalls, vvars>>
    /\ UNCHANGED <<avars, lvars, mvars>>

UnmuteViewer(v, wired) ==
    /\ mounted
    /\ InboxRoom(1)
    /\ unmuteViewer(v, wired)
    /\ UNCHANGED <<status, isSharing, viewerCount, error, peerRef, streamRef,
                   viewerMediaCalls, viewerAudioElements, isSpeakerMuted,
                   mounted, dataListener, callListener, pendingShares,
                   signal, link, hnd, audioCall, openCalls, vvars>>
    /\ UNCHANGED <<avars, lvars, mvars>>

(***************************************************************************)
(* Inbound viewer audio: handleCall (lines 520-560), toggleSpeakerMute     *)
(* (371-378).                                                              *)
(***************************************************************************)

\* peer.on('call'): a viewer's audio call arrives and handleCall, if
\* attached, answers it and registers its stream and close handlers, which
\* keep the isSpeakerMuted of the render that created handleCall (the one
\* current when the call arrives: the effect re-attaches on every change).
IncomingCall(v) ==
    /\ signal = "open"
    /\ callListener
    /\ audioCall[v] = "none"
    /\ audioCall' = [audioCall EXCEPT ![v] = BoolTag(isSpeakerMuted)]
    /\ ops' = << <<"answer", v>> >>
    /\ UNCHANGED <<pvars, signal, link, hnd, inbox, openCalls, vvars>>

\* call.on('stream'), lines 525-554: a stream without audio tracks is
\* ignored, one with audio gets (or reuses) the viewer's audio sink, whose
\* muted flag is set to the captured isSpeakerMuted and which is played.
CallStream(v, hasAudio) ==
    /\ audioCall[v] # "none"
    /\ IF hasAudio
       THEN /\ viewerAudioElements' = viewerAudioElements \cup {v}
            /\ mutedAudioElements' =
                   IF audioCall[v] = "T" THEN mutedAudioElements \cup {v}
                   ELSE mutedAudioElements \ {v}
            /\ hasViewerAudio' = TRUE
            /\ isViewerAudioEnabled' = TRUE
       ELSE UNCHANGED <<viewerAudioElements, avars>>
    /\ ops' = <<>>
    /\ UNCHANGED <<status, isSharing, viewerCount, error, mutedViewers,
                   peerRef, streamRef, viewerConnections, viewerMediaCalls,
                   isSpeakerMuted, mounted, dataListener, callListener,
                   pendingShares, lvars, mvars, tvars, vvars>>

\* call.on('close'), lines 556-559.
CallClosed(v) ==
    /\ audioCall[v] # "none"
    /\ audioCall' = [audioCall EXCEPT ![v] = "none"]
    /\ cleanupViewerAudio(v)
    /\ ops' = <<>>
    /\ UNCHANGED <<status, isSharing, viewerCount, error, mutedViewers,
                   peerRef, streamRef, viewerConnections, viewerMediaCalls,
                   isSpeakerMuted, isViewerAudioEnabled, mounted,
                   dataListener, callListener, pendingShares, lvars, mvars,
                   signal, link, hnd, inbox, openCalls, vvars>>

\* enableViewerAudio, lines 358-368.
EnableViewerAudio ==
    /\ mounted
    /\ mutedAudioElements' = {}
    /\ isViewerAudioEnabled' = TRUE
    /\ isSpeakerMuted' = FALSE
    /\ ops' = <<>>
    /\ UNCHANGED <<peerRef, isSharing>>
    /\ RunEffects
    /\ UNCHANGED <<status, viewerCount, error, mutedViewers, streamRef,
                   viewerConnections, viewerMediaCalls, viewerAudioElements,
                   hasViewerAudio, mounted, pendingShares, lvars, mvars,
                   tvars, vvars>>

\* toggleSpeakerMute, lines 371-378.  The page offers it while hasViewerAudio
\* and isViewerAudioEnabled are true (ScreenSharePresenterUI.tsx:185-206).
ToggleSpeakerMute ==
    /\ hasViewerAudio
    /\ isViewerAudioEnabled
    /\ isSpeakerMuted' = ~isSpeakerMuted
    /\ mutedAudioElements' =
           IF ~isSpeakerMuted THEN viewerAudioElements ELSE {}
    /\ ops' = <<>>
    /\ UNCHANGED <<peerRef, isSharing>>
    /\ RunEffects
    /\ UNCHANGED <<status, viewerCount, error, mutedViewers, streamRef,
                   viewerConnections, viewerMediaCalls, viewerAudioElements,
                   hasViewerAudio, isViewerAudioEnabled, mounted,
                   pendingShares, lvars, mvars, tvars, vvars>>

(***************************************************************************)
(* The presenter session on its own: the viewers are the environment.      *)
(***************************************************************************)

Next ==
    \/ MountElsewhere
    \/ \E r \in Rooms : MountPresenterPage(r)
    \/ \E r \in Rooms : InitializeRoom(r, FALSE)
    \/ PeerOpen
    \/ PeerError
    \/ PeerDisconnected
    \/ \E v \in Viewers : Connection(v)
    \/ \E v \in Viewers : ConnOpen(v)
    \/ \E v \in Viewers : ConnClose(v)
    \/ \E v \in Viewers : ConnError(v)
    \/ \E v \in Viewers : MediaCallClosed(v)
    \/ StartSharing
    \/ \E granted \in BOOLEAN : DisplaySettled(granted)
    \/ \E granted \in BOOLEAN : MicSettled(granted)
    \/ StopSharing
    \/ TrackEnded
    \/ EndMeeting(FALSE)
    \/ \E v \in Viewers : MuteViewer(v, FALSE)
    \/ \E v \in Viewers : UnmuteViewer(v, FALSE)

Spec == Init /\ [][Next]_vars

(***************************************************************************)
(* The viewer, ScreenShareViewer.tsx.  Its control-link handlers are       *)
(* registered once, by the effect of lines 93-250 (dependencies roomId,    *)
(* peerConfig, cleanupConnections), and keep the state of the first        *)
(* render: isMicEnabled = false (line 27), isMicMuted = false (line 28),   *)
(* status = 'connecting' (line 23).                                        *)
(***************************************************************************)

InstalledIsMicEnabled == FALSE
InstalledIsMicMuted == FALSE
InstalledStatus == "connecting"

\* cleanupConnections leaving the microphone call open.
cleanupConnections_keepMicCall(v) ==
    /\ vMicTrack' = [vMicTrack EXCEPT ![v] = "null"]
    /\ UNCHANGED vMicCall
    /\ vCall' = [vCall EXCEPT ![v] = FALSE]
    /\ vConn' = [vConn EXCEPT ![v] = FALSE]
    /\ vVideo' = [vVideo EXCEPT ![v] = FALSE]

\* cleanupConnections, lines 39-68: the microphone stream is stopped and
\* dropped, the microphone call, the media call and the control link are
\* closed and dropped, the video sink is cleared.
cleanupConnections(v) ==
    /\ vMicTrack' = [vMicTrack EXCEPT ![v] = "null"]
    /\ vMicCall' = [vMicCall EXCEPT ![v] = FALSE]
    /\ vCall' = [vCall EXCEPT ![v] = FALSE]
    /\ vConn' = [vConn EXCEPT ![v] = FALSE]
    /\ vVideo' = [vVideo EXCEPT ![v] = FALSE]

\* peer.on('open'), lines 105-111: status waiting, and the control link to
\* the presenter is requested.
ViewerPeerOpen(v) ==
    /\ vStatus[v] = "connecting"
    /\ vStatus' = [vStatus EXCEPT ![v] = "waiting"]
    /\ vConn' = [vConn EXCEPT ![v] = TRUE]
    /\ ops' = <<>>
    /\ UNCHANGED <<pvars, tvars, vMutedByPresenter, vIsMicEnabled,
                   vIsMicMuted, vMicTrack, vMicPending, vCall, vMicCall,
                   vVideo>>

\* The control link requested by a live viewer arrives at the presenter.
ViewerConnection(v) ==
    /\ vStatus[v] \in {"waiting", "receiving"}
    /\ Connection(v)

\* peer.on('call') and call.on('stream'), lines 162-207: the presenter's
\* media call delivers its stream.
ViewerStream(v) ==
    /\ v \in viewerMediaCalls
    /\ vStatus[v] = "waiting"
    /\ vStatus' = [vStatus EXCEPT ![v] = "receiving"]
    /\ vCall' = [vCall EXCEPT ![v] = TRUE]
    /\ vVideo' = [vVideo EXCEPT ![v] = TRUE]
    /\ ops' = <<>>
    /\ UNCHANGED <<pvars, tvars, vMutedByPresenter, vIsMicEnabled,
                   vIsMicMuted, vMicTrack, vMicPending, vConn, vMicCall>>

\* onData treating a message of any other type as the end of the meeting.
onData_unknownEnds(v, type) ==
    CASE type = "viewer-muted" ->
           /\ vMutedByPresenter' = [vMutedByPresenter EXCEPT ![v] = TRUE]
           /\ vMicTrack' = [vMicTrack EXCEPT ![v] =
                              IF @ # "null" THEN "disabled" ELSE @]
           /\ UNCHANGED <<vStatus, rvars>>
      [] type = "viewer-unmuted" ->
           /\ vMutedByPresenter' = [vMutedByPresenter EXCEPT ![v] = FALSE]
           /\ vMicTrack' = [vMicTrack EXCEPT ![v] =
                              IF @ # "null" /\ InstalledIsMicEnabled
                                 /\ ~InstalledIsMicMuted
                              THEN "enabled" ELSE @]
           /\ UNCHANGED <<vStatus, rvars>>
      [] OTHER ->
           /\ vStatus' = [vStatus EXCEPT ![v] = "ended"]
           /\ cleanupConnections(v)
           /\ UNCHANGED vMutedByPresenter

\* conn.on('data'), lines 118-147, for one message.
onData(v, type) ==
    CASE type = "meeting-ended" ->
           /\ vStatus' = [vStatus EXCEPT ![v] = "ended"]
           /\ cleanupConnections(v)
           /\ UNCHANGED vMutedByPresenter
      [] type = "viewer-muted" ->
           /\ vMutedByPresenter' = [vMutedByPresenter EXCEPT ![v] = TRUE]
           /\ vMicTrack' = [vMicTrack EXCEPT ![v] =
                              IF @ # "null" THEN "disabled" ELSE @]
           /\ UNCHANGED <<vStatus, rvars>>
      [] type = "viewer-unmuted" ->
           /\ vMutedByPresenter' = [vMutedByPresenter EXCEPT ![v] = FALSE]
           /\ vMicTrack' = [vMicTrack EXCEPT ![v] =
                              IF @ # "null" /\ InstalledIsMicEnabled
                                 /\ ~InstalledIsMicMuted
                              THEN "enabled" ELSE @]
           /\ UNCHANGED <<vStatus, rvars>>
      [] OTHER ->
           UNCHANGED <<vStatus, vMicTrack, vMutedByPresenter, rvars>>

\* The viewer reads the next control message.  Nothing is read once the
\* viewer has closed its end (meeting ended or left).
ViewerReceive(v) ==
    /\ inbox[v] # <<>>
    /\ vStatus[v] \in {"waiting", "receiving"}
    /\ onData(v, Head(inbox[v]))
    /\ inbox' = [inbox EXCEPT ![v] = Tail(@)]
    /\ ops' = << <<"data", v, Head(inbox[v])>> >>
    /\ UNCHANGED <<pvars, signal, link, hnd, audioCall, openCalls, vIsMicEnabled,
                   vIsMicMuted, vMicPending>>

\* enableMicrophone, lines 288-322, up to its await.  The page offers it
\* while status is receiving and isMicEnabled is false (lines 499-506).  The
\* callback keeps the isMutedByPresenter of the render that created it.
EnableMicrophone(v) ==
    /\ vStatus[v] = "receiving"
    /\ ~vIsMicEnabled[v]
    /\ vMicPending[v] = "none"
    /\ vMicPending' = [vMicPending EXCEPT ![v] = BoolTag(vMutedByPresenter[v])]
    /\ ops' = <<>>
    /\ UNCHANGED <<pvars, tvars, vMutedByPresenter, vIsMicEnabled,
                   vIsMicMuted, vMicTrack, vStatus, rvars>>

\* The track state enableMicrophone gives the new microphone track, line 302.
initialTrack(capturedMuted) ==
    IF capturedMuted = "T" THEN "disabled" ELSE "enabled"

\* getUserMedia settles in the viewer and enableMicrophone runs to its end.
\* After leaveMeeting peerRef.current is null: the call at line 307 throws
\* after the stream has been stored, and micCallRef and the state setters
\* are skipped.
ViewerMicSettled(v, granted) ==
    /\ vMicPending[v] # "none"
    /\ vMicPending' = [vMicPending EXCEPT ![v] = "none"]
    /\ IF granted
       THEN /\ vMicTrack' = [vMicTrack EXCEPT ![v] =
                               initialTrack(vMicPending[v])]
            /\ IF vStatus[v] # "left"
               THEN /\ vMicCall' = [vMicCall EXCEPT ![v] = TRUE]
                    /\ vIsMicEnabled' = [vIsMicEnabled EXCEPT ![v] = TRUE]
                    /\ vIsMicMuted' = [vIsMicMuted EXCEPT ![v] = FALSE]
               ELSE UNCHANGED <<vMicCall, vIsMicEnabled, vIsMicMuted>>
       ELSE UNCHANGED <<vMicTrack, vMicCall, vIsMicEnabled, vIsMicMuted>>
    /\ ops' = <<>>
    /\ UNCHANGED <<pvars, tvars, vMutedByPresenter, vStatus, vConn, vCall,
                   vVideo>>

\* toggleMicMute, lines 325-340; offered while the microphone is on.
ToggleMicMute(v) ==
    /\ vStatus[v] = "receiving"
    /\ vIsMicEnabled[v]
    /\ IF vMutedByPresenter[v] \/ vMicTrack[v] = "null"
       THEN UNCHANGED <<vMicTrack, vIsMicMuted>>
       ELSE /\ vMicTrack' = [vMicTrack EXCEPT ![v] =
                               IF ~vIsMicMuted[v] THEN "disabled"
                               ELSE "enabled"]
            /\ vIsMicMuted' = [vIsMicMuted EXCEPT ![v] = ~@]
    /\ ops' = <<>>
    /\ UNCHANGED <<pvars, tvars, vMutedByPresenter, vIsMicEnabled,
                   vMicPending, vStatus, rvars>>

\* disableMicrophone, lines 343-355; offered while the microphone is on.
DisableMicrophone(v) ==
    /\ vStatus[v] = "receiving"
    /\ vIsMicEnabled[v]
    /\ vMicTrack' = [vMicTrack EXCEPT ![v] = "null"]
    /\ vIsMicEnabled' = [vIsMicEnabled EXCEPT ![v] = FALSE]
    /\ vIsMicMuted' = [vIsMicMuted EXCEPT ![v] = FALSE]
    /\ vMicCall' = [vMicCall EXCEPT ![v] = FALSE]
    /\ ops' = <<>>
    /\ UNCHANGED <<pvars, tvars, vMutedByPresenter, vMicPending, vStatus,
                   vConn, vCall, vVideo>>

\* The status a render shows after the setStatus calls of one handler,
\* which React applies together: the value of the last call.
Batched(st, updates) ==
    IF updates = <<>> THEN st ELSE updates[Len(updates)]

\* conn.on('close'), lines 149-154: the setStatus calls it makes.  The
\* handler tests the status of the render that registered it.
onViewerConnClose ==
    IF InstalledStatus # "left" THEN <<"ended">> ELSE <<>>

\* call.on('close'), lines 209-217: the setStatus calls it makes, with the
\* same test of the registering render's status.
onViewerCallClose ==
    IF InstalledStatus # "left" THEN <<"ended">> ELSE <<>>

\* leaveMeeting setting the status before it closes the connections.
leaveMeetingUpdates_leftFirst(v) ==
    <<"left">>
    \o (IF vCall[v] THEN onViewerCallClose ELSE <<>>)
    \o (IF vConn[v] THEN onViewerConnClose ELSE <<>>)

\* The setStatus calls made while leaveMeeting runs, lines 71-86.
\* cleanupConnections closes the media call and then the control link
\* (lines 53-62); close() emits 'close' before it returns, so their close
\* handlers run inside leaveMeeting, before its setStatus('left') (line 81).
leaveMeetingUpdates(v) ==
    (IF vCall[v] THEN onViewerCallClose ELSE <<>>)
    \o (IF vConn[v] THEN onViewerConnClose ELSE <<>>)
    \o <<"left">>

\* leaveMeeting, lines 71-86.
LeaveMeeting(v) ==
    /\ vStatus[v] \in {"waiting", "receiving"}
    /\ cleanupConnections(v)
    /\ vStatus' = [vStatus EXCEPT ![v] =
                      Batched(vStatus[v], leaveMeetingUpdates(v))]
    /\ vIsMicEnabled' = [vIsMicEnabled EXCEPT ![v] = FALSE]
    /\ vIsMicMuted' = [vIsMicMuted EXCEPT ![v] = FALSE]
    /\ vMutedByPresenter' = [vMutedByPresenter EXCEPT ![v] = FALSE]
    /\ ops' = <<>>
    /\ UNCHANGED <<pvars, tvars, vMicPending>>

\* The control link delivers a message of a type this presenter never
\* sends; conn.on('data') takes any data as a DataMessage (line 119).
ForeignMessage(v) ==
    /\ link[v] = "open"
    /\ vConn[v]
    /\ Len(inbox[v]) < MaxInbox
    /\ inbox' = [inbox EXCEPT ![v] = Append(@, "unknown")]
    /\ ops' = <<>>
    /\ UNCHANGED <<pvars, signal, link, hnd, audioCall, openCalls, vvars>>

\* The viewer's end of the control link reports its close after the
\* presenter's end was closed (by endMeeting, or because the link went
\* down): conn.on('close'), lines 149-154.  A link the viewer has closed
\* itself (connectionRef cleared by cleanupConnections) reports nothing
\* more.
ViewerConnClosed(v) ==
    /\ vConn[v]
    /\ link[v] = "closed"
    /\ vStatus' = [vStatus EXCEPT ![v] = Batched(@, onViewerConnClose)]
    /\ ops' = <<>>
    /\ UNCHANGED <<pvars, tvars, vMutedByPresenter, vIsMicEnabled,
                   vIsMicMuted, vMicTrack, vMicPending, rvars>>

\* The media call the viewer answered reports its close after the presenter
\* closed its end (stopSharing, endMeeting, the close of the viewer's
\* control link): call.on('close'), lines 209-217.  A call the viewer has
\* closed itself (callRef cleared by cleanupConnections) reports nothing
\* more.
ViewerCallClosed(v) ==
    /\ vCall[v]
    /\ v \notin viewerMediaCalls
    /\ vStatus' = [vStatus EXCEPT ![v] = Batched(@, onViewerCallClose)]
    /\ vVideo' = [vVideo EXCEPT ![v] = FALSE]
    /\ ops' = <<>>
    /\ UNCHANGED <<pvars, tvars, vMutedByPresenter, vIsMicEnabled,
                   vIsMicMuted, vMicTrack, vMicPending, vConn, vCall,
                   vMicCall>>

(***************************************************************************)
(* Presenter and viewers together: what the presenter sends is read by the *)
(* viewers.  The presenter page is opened directly on one room.  Every     *)
(* viewer joins, is muted and unmuted and reads its messages; the viewers  *)
(* of Speakers also receive the stream and use their microphone.           *)
(***************************************************************************)

Speakers == {"v1"}

NextMute ==
    \/ MountPresenterPage("r1")
    \/ PeerOpen
    \/ \E v \in Viewers : ViewerPeerOpen(v)
    \/ \E v \in Viewers : ViewerConnection(v)
    \/ \E v \in Viewers : ConnOpen(v)
    \/ \E v \in Viewers : ConnClose(v)
    \/ StartSharing
    \/ DisplaySettled(TRUE)
    \/ MicSettled(TRUE)
    \/ \E v \in Speakers : ViewerStream(v)
    \/ \E v \in Viewers : MuteViewer(v, TRUE)
    \/ \E v \in Viewers : UnmuteViewer(v, TRUE)
    \/ \E v \in Viewers : ViewerReceive(v)
    \/ \E v \in Speakers : EnableMicrophone(v)
    \/ \E v \in Speakers, granted \in BOOLEAN : ViewerMicSettled(v, granted)
    \/ \E v \in Speakers : ToggleMicMute(v)
    \/ \E v \in Speakers : DisableMicrophone(v)
    \/ \E v \in Speakers : LeaveMeeting(v)

SpecMute == Init /\ [][NextMute]_vars

(***************************************************************************)
(* The presenter session with inbound viewer audio, the presenter page     *)
(* opened directly on one room.                                            *)
(***************************************************************************)

NextAudio ==
    \/ MountPresenterPage("r1")
    \/ PeerOpen
    \/ PeerError
    \/ \E v \in Viewers : Connection(v)
    \/ \E v \in Viewers : ConnOpen(v)
    \/ \E v \in Viewers : ConnClose(v)
    \/ \E v \in Viewers : ConnError(v)
    \/ StartSharing
    \/ \E granted \in BOOLEAN : DisplaySettled(granted)
    \/ \E granted \in BOOLEAN : MicSettled(granted)
    \/ StopSharing
    \/ EndMeeting(FALSE)
    \/ \E v \in Viewers : MuteViewer(v, FALSE)
    \/ \E v \in Viewers : IncomingCall(v)
    \/ \E v \in Viewers, hasAudio \in BOOLEAN : CallStream(v, hasAudio)
    \/ \E v \in Viewers : CallClosed(v)

SpecAudio == Init /\ [][NextAudio]_vars

(***************************************************************************)
(* The control channel end to end: the presenter's control messages and    *)
(* the viewers that read them; endMeeting closes the links.  The           *)
(* share is started so that the meeting can be ended; no viewer uses its   *)
(* microphone.                                                             *)
(***************************************************************************)

NextControl ==
    \/ MountPresenterPage("r1")
    \/ PeerOpen
    \/ \E v \in Viewers : ViewerPeerOpen(v)
    \/ \E v \in Viewers : ViewerConnection(v)
    \/ \E v \in Viewers : ConnOpen(v)
    \/ \E v \in Viewers : MuteViewer(v, TRUE)
    \/ \E v \in Viewers : UnmuteViewer(v, TRUE)
    \/ StartSharing
    \/ DisplaySettled(TRUE)
    \/ MicSettled(TRUE)
    \/ EndMeeting(TRUE)
    \/ \E v \in Viewers : ViewerReceive(v)

SpecControl == Init /\ [][NextControl]_vars

(***************************************************************************)
(* One viewer through its whole life: it joins, receives the stream, uses  *)
(* its microphone, is muted and unmuted, reads the control messages        *)
(* (those of the presenter and foreign ones) and sees the meeting end.     *)
(***************************************************************************)

NextViewer ==
    \/ MountPresenterPage("r1")
    \/ PeerOpen
    \/ \E v \in Speakers : ViewerPeerOpen(v)
    \/ \E v \in Speakers : ViewerConnection(v)
    \/ \E v \in Speakers : ConnOpen(v)
    \/ StartSharing
    \/ DisplaySettled(TRUE)
    \/ MicSettled(TRUE)
    \/ EndMeeting(TRUE)
    \/ \E v \in Speakers : ViewerStream(v)
    \/ \E v \in Speakers : MuteViewer(v, TRUE)
    \/ \E v \in Speakers : UnmuteViewer(v, TRUE)
    \/ \E v \in Speakers : ForeignMessage(v)
    \/ \E v \in Speakers : ViewerReceive(v)
    \/ \E v \in Speakers : EnableMicrophone(v)
    \/ \E v \in Speakers, granted \in BOOLEAN : ViewerMicSettled(v, granted)
    \/ \E v \in Speakers : ToggleMicMute(v)
    \/ \E v \in Speakers : DisableMicrophone(v)

SpecViewer == Init /\ [][NextViewer]_vars

(***************************************************************************)
(* Viewers that leave: they join, receive the stream, may ask for the      *)
(* microphone and leave, while the presenter stops the share, ends the     *)
(* meeting or loses their links; the viewers' ends of the control link and *)
(* of the media call report their close.                                   *)
(***************************************************************************)

NextLeave ==
    \/ MountPresenterPage("r1")
    \/ PeerOpen
    \/ \E v \in Viewers : ViewerPeerOpen(v)
    \/ \E v \in Viewers : ViewerConnection(v)
    \/ \E v \in Viewers : ConnOpen(v)
    \/ \E v \in Viewers : ConnClose(v)
    \/ StartSharing
    \/ DisplaySettled(TRUE)
    \/ MicSettled(TRUE)
    \/ StopSharing
    \/ EndMeeting(TRUE)
    \/ \E v \in Viewers : ViewerStream(v)
    \/ \E v \in Viewers : ViewerReceive(v)
    \/ \E v \in Viewers : ViewerConnClosed(v)
    \/ \E v \in Viewers : ViewerCallClosed(v)
    \/ \E v \in Speakers : EnableMicrophone(v)
    \/ \E v \in Speakers, granted \in BOOLEAN : ViewerMicSettled(v, granted)
    \/ \E v \in Viewers : LeaveMeeting(v)

SpecLeave == Init /\ [][NextLeave]_vars

(***************************************************************************)
(* Playback of inbound viewer audio: the audio sinks, enableViewerAudio    *)
(* and toggleSpeakerMute, in a session whose viewers join, send audio and  *)
(* leave, and which is shared and ended.                                   *)
(***************************************************************************)

NextSpeaker ==
    \/ MountPresenterPage("r1")
    \/ PeerOpen
    \/ \E v \in Viewers : Connection(v)
    \/ \E v \in Viewers : ConnOpen(v)
    \/ \E v \in Viewers : ConnClose(v)
    \/ StartSharing
    \/ DisplaySettled(TRUE)
    \/ MicSettled(TRUE)
    \/ EndMeeting(FALSE)
    \/ \E v \in Viewers : IncomingCall(v)
    \/ \E v \in Viewers, hasAudio \in BOOLEAN : CallStream(v, hasAudio)
    \/ \E v \in Viewers : CallClosed(v)
    \/ EnableViewerAudio
    \/ ToggleSpeakerMute

SpecSpeaker == Init /\ [][NextSpeaker]_vars

(***************************************************************************)
(* ScreenSharePresenter.tsx: the presenter component that keeps the        *)
(* inbound streams in viewerAudioStreams and plays one mixed stream        *)
(* through a single <audio autoPlay muted> sink (line 493).  Its state and *)
(* refs of the same names as the provider's are the same variables, and    *)
(* its handlers whose code is the provider's (peer 'open', the             *)
(* 'connection' listener and the control link's 'open' handler, lines      *)
(* 188-237; startSharing, lines 365-430) are the same actions.             *)
(***************************************************************************)

\* The component mounts with a room id: status starts at connecting (line
\* 38), the effect of lines 176-207 creates the peer, and the effects of
\* lines 210-273 and 276-308 attach both listeners to it.
MixerMount ==
    /\ ~mounted
    /\ mounted' = TRUE
    /\ status' = "connecting"
    /\ peerRef' = "r1"
    /\ signal' = "connecting"
    /\ dataListener' = BoolTag(isSharing)
    /\ callListener' = TRUE
    /\ ops' = <<>>
    /\ UNCHANGED <<isSharing, viewerCount, error, mutedViewers, streamRef,
                   viewerConnections, viewerMediaCalls, viewerAudioElements,
                   isSpeakerMuted, pendingShares, avars, lvars, mvars,
                   link, hnd, inbox, audioCall, openCalls, vvars>>

\* updateViewerAudioMix, lines 311-331, run on the streams `streams`: the
\* viewers feeding the published stream afterwards.  createMediaStreamSource
\* throws for a stream without an audio track; the exception leaves the
\* handler before srcObject is assigned, and the published graph stays.
updateViewerAudioMix(streams) ==
    /\ audioContextRef' = "running"
    /\ mixedOutput' =
           IF \E v \in DOMAIN streams : ~streams[v] THEN mixedOutput
           ELSE DOMAIN streams

\* call.on('stream'), lines 286-296.
MixerCallStream(v, hasAudio) ==
    /\ audioCall[v] # "none"
    /\ viewerAudioStreams' = MapSet(viewerAudioStreams, v, hasAudio)
    /\ updateViewerAudioMix(viewerAudioStreams')
    /\ ops' = <<>>
    /\ UNCHANGED <<status, isSharing, viewerCount, error, mutedViewers,
                   peerRef, streamRef, viewerConnections, viewerMediaCalls,
                   viewerAudioElements, isSpeakerMuted, mounted,
                   dataListener, callListener, pendingShares, avars, lvars,
                   viewerAudioMuted, tvars, vvars>>

\* call.on('close'), lines 298-302.
MixerCallClosed(v) ==
    /\ audioCall[v] # "none"
    /\ audioCall' = [audioCall EXCEPT ![v] = "none"]
    /\ viewerAudioStreams' = MapDelete(viewerAudioStreams, v)
    /\ updateViewerAudioMix(viewerAudioStreams')
    /\ ops' = <<>>
    /\ UNCHANGED <<status, isSharing, viewerCount, error, mutedViewers,
                   peerRef, streamRef, viewerConnections, viewerMediaCalls,
                   viewerAudioElements, isSpeakerMuted, mounted,
                   dataListener, callListener, pendingShares, avars, lvars,
                   viewerAudioMuted, signal, link, hnd, inbox, openCalls, vvars>>

\* conn.on('close'), lines 239-251, and conn.on('error'), lines 253-264:
\* the same writes, and the close handler also records a leave.
mixerConnGone(v, activity) ==
    /\ viewerConnections' = MapDelete(viewerConnections, v)
    /\ viewerMediaCalls' = viewerMediaCalls \ {v}
    /\ viewerAudioStreams' = MapDelete(viewerAudioStreams, v)
    /\ mutedViewers' = mutedViewers \ {v}
    /\ viewerCount' = Cardinality(DOMAIN viewerConnections')
    /\ ops' = activity

\* What the close or error of a control link does in ScreenSharePresenter,
\* with or without handlers on the link.
mixerLinkGone(v, withHandler, activity) ==
    /\ IF withHandler
       THEN mixerConnGone(v, activity)
       ELSE /\ ops' = <<>>
            /\ UNCHANGED <<viewerConnections, viewerMediaCalls,
                           viewerAudioStreams, mutedViewers, viewerCount>>
    /\ UNCHANGED <<audioContextRef, mixedOutput>>

MixerConnClose(v) ==
    /\ link[v] \in {"open", "failed"}
    /\ link' = [link EXCEPT ![v] = "closed"]
    /\ mixerLinkGone(v, hnd[v] # "none", addViewerActivity("leave", v))
    /\ UNCHANGED <<status, isSharing, error, peerRef, streamRef,
                   viewerAudioElements, isSpeakerMuted, mounted,
                   dataListener, callListener, pendingShares, avars, lvars,
                   viewerAudioMuted, signal, hnd, inbox, audioCall, openCalls, vvars>>

MixerConnError(v) ==
    /\ link[v] \in {"received", "open"}
    /\ link' = [link EXCEPT ![v] = IF link[v] = "open" THEN "failed"
                                   ELSE "closed"]
    /\ mixerLinkGone(v, hnd[v] # "none", <<>>)
    /\ UNCHANGED <<status, isSharing, error, peerRef, streamRef,
                   viewerAudioElements, isSpeakerMuted, mounted,
                   dataListener, callListener, pendingShares, avars, lvars,
                   viewerAudioMuted, signal, hnd, inbox, audioCall, openCalls, vvars>>

\* endMeeting, lines 130-173, offered by the component while isSharing is
\* true (lines 564-596).  The audio context is closed, which silences the
\* published graph, and dropped; the sink's muted flag is left as it is.
MixerEndMeeting ==
    /\ isSharing
    /\ ops' = endMeetingOps
    /\ CountCalls(endMeetingOps)
    /\ streamRef' = "null"
    /\ viewerMediaCalls' = {}
    /\ viewerConnections' = EmptyMap
    /\ viewerAudioStreams' = EmptyMap
    /\ audioContextRef' = "null"
    /\ mixedOutput' = {}
    /\ isSharing' = FALSE
    /\ viewerCount' = 0
    /\ mutedViewers' = {}
    /\ isViewerAudioEnabled' = FALSE
    /\ status' = "ready"
    /\ link' = [v \in Viewers |-> IF v \in Registry THEN "closed" ELSE link[v]]
    /\ UNCHANGED <<peerRef, isSpeakerMuted>>
    /\ RunEffects
    /\ UNCHANGED <<error, viewerAudioElements, mutedAudioElements,
                   hasViewerAudio, mounted, pendingShares, lvars,
                   viewerAudioMuted, signal, hnd, inbox, audioCall, vvars>>

\* enableViewerAudio, lines 334-343.
MixerEnableViewerAudio ==
    /\ mounted
    /\ viewerAudioMuted' = FALSE
    /\ isViewerAudioEnabled' = TRUE
    /\ ops' = <<>>
    /\ UNCHANGED <<status, isSharing, viewerCount, error, mutedViewers,
                   peerRef, streamRef, viewerConnections, viewerMediaCalls,
                   viewerAudioElements, isSpeakerMuted, mutedAudioElements,
                   hasViewerAudio, mounted, dataListener, callListener,
                   pendingShares, lvars, viewerAudioStreams, audioContextRef,
                   mixedOutput, tvars, vvars>>

NextMixer ==
    \/ MixerMount
    \/ PeerOpen
    \/ \E v \in Viewers : Connection(v)
    \/ \E v \in Viewers : ConnOpen(v)
    \/ \E v \in Viewers : MixerConnClose(v)
    \/ \E v \in Viewers : MixerConnError(v)
    \/ StartSharing
    \/ DisplaySettled(TRUE)
    \/ MicSettled(TRUE)
    \/ MixerEndMeeting
    \/ \E v \in Viewers : IncomingCall(v)
    \/ \E v \in Viewers, hasAudio \in BOOLEAN : MixerCallStream(v, hasAudio)
    \/ \E v \in Viewers : MixerCallClosed(v)
    \/ MixerEnableViewerAudio

SpecMixer == Init /\ [][NextMixer]_vars

(***************************************************************************)
(* PresenterControls.tsx: the presenter panel of pages/Presenter.tsx.  It   *)
(* keeps the same state and refs under the same names; its mount, its peer *)
(* handlers (lines 134-164), the 'connection' listener (166-209),          *)
(* muteViewer and unmuteViewer (78-100) and startSharing (274-312) have    *)
(* the code of ScreenSharePresenter and are the same actions.  Its control *)
(* link handlers record no activity, and its panel lists a mute button for *)
(* each key of viewerConnections (lines 356, 501-517).                     *)
(***************************************************************************)

\* conn.on('open'), lines 171-182.
controlsConnOpen(v) ==
    LET calling == streamRef # "null" /\ hnd[v] = "T"
    IN  /\ viewerConnections' =
               MapSet(viewerConnections, v, [isMutedByPresenter |-> FALSE])
        /\ viewerCount' = Cardinality(DOMAIN viewerConnections')
        /\ ops' = IF calling THEN callViewer(v) ELSE <<>>
        /\ viewerMediaCalls' =
               IF calling /\ peerRef # "null"
               THEN viewerMediaCalls \cup {v} ELSE viewerMediaCalls
        /\ UNCHANGED <<mutedViewers, viewerAudioStreams>>

\* conn.on('close'), lines 184-194.
controlsConnClose(v) ==
    /\ viewerConnections' = MapDelete(viewerConnections, v)
    /\ viewerMediaCalls' = viewerMediaCalls \ {v}
    /\ viewerAudioStreams' = MapDelete(viewerAudioStreams, v)
    /\ mutedViewers' = mutedViewers \ {v}
    /\ viewerCount' = Cardinality(DOMAIN viewerConnections')
    /\ ops' = <<>>

\* conn.on('error'), lines 196-201.
controlsConnError(v) ==
    /\ viewerConnections' = MapDelete(viewerConnections, v)
    /\ viewerMediaCalls' = viewerMediaCalls \ {v}
    /\ viewerAudioStreams' = MapDelete(viewerAudioStreams, v)
    /\ UNCHANGED mutedViewers
    /\ viewerCount' = Cardinality(DOMAIN viewerConnections')
    /\ ops' = <<>>

controlsNoHandler ==
    /\ ops' = <<>>
    /\ UNCHANGED <<viewerConnections, viewerMediaCalls, viewerAudioStreams,
                   mutedViewers, viewerCount>>

\* What every control-link event of the panel leaves alone.
controlsLinkFrame ==
    UNCHANGED <<status, isSharing, error, peerRef, streamRef,
                viewerAudioElements, isSpeakerMuted, mounted, dataListener,
                callListener, pendingShares, avars, lvars, audioContextRef,
                mixedOutput, viewerAudioMuted, signal, hnd, inbox, audioCall,
                vvars>>

ControlsConnOpen(v) ==
    /\ link[v] = "received"
    /\ link' = [link EXCEPT ![v] = "open"]
    /\ IF hnd[v] # "none" THEN controlsConnOpen(v) ELSE controlsNoHandler
    /\ CallRoom(ops')
    /\ CountCalls(ops')
    /\ controlsLinkFrame

ControlsConnClose(v) ==
    /\ link[v] \in {"open", "failed"}
    /\ link' = [link EXCEPT ![v] = "closed"]
    /\ IF hnd[v] # "none" THEN controlsConnClose(v) ELSE controlsNoHandler
    /\ UNCHANGED openCalls
    /\ controlsLinkFrame

ControlsConnError(v) ==
    /\ link[v] \in {"received", "open"}
    /\ link' = [link EXCEPT ![v] = IF link[v] = "open" THEN "failed"
                                   ELSE "closed"]
    /\ IF hnd[v] # "none" THEN controlsConnError(v) ELSE controlsNoHandler
    /\ UNCHANGED openCalls
    /\ controlsLinkFrame

\* What endMeeting (lines 102-132) does on the transport; the close
\* handlers run inside it and what they write is overwritten.
controlsEndMeetingOps ==
    broadcastToViewers("meeting-ended")
    \o MapSeq(SetToSeq(viewerMediaCalls), LAMBDA v : <<"closeCall", v>>)
    \o MapSeq(SetToSeq(Registry), LAMBDA v : <<"closeConn", v>>)

\* endMeeting, lines 102-132, offered while isSharing is true (461-465).
ControlsEndMeeting ==
    /\ isSharing
    /\ ops' = controlsEndMeetingOps
    /\ CountCalls(controlsEndMeetingOps)
    /\ streamRef' = "null"
    /\ viewerMediaCalls' = {}
    /\ viewerConnections' = EmptyMap
    /\ viewerAudioStreams' = EmptyMap
    /\ audioContextRef' = "null"
    /\ mixedOutput' = {}
    /\ isSharing' = FALSE
    /\ viewerCount' = 0
    /\ mutedViewers' = {}
    /\ isViewerAudioEnabled' = FALSE
    /\ status' = "ended"
    /\ link' = [v \in Viewers |-> IF v \in Registry THEN "closed" ELSE link[v]]
    /\ UNCHANGED <<peerRef, isSpeakerMuted>>
    /\ RunEffects
    /\ UNCHANGED <<error, viewerAudioElements, mutedAudioElements,
                   hasViewerAudio, mounted, pendingShares, lvars,
                   viewerAudioMuted, signal, hnd, inbox, audioCall, vvars>>

NextPresenterControls ==
    \/ MixerMount
    \/ PeerOpen
    \/ \E v \in Viewers : Connection(v)
    \/ \E v \in Viewers : ControlsConnOpen(v)
    \/ \E v \in Viewers : ControlsConnClose(v)
    \/ \E v \in Viewers : ControlsConnError(v)
    \/ \E v \in Registry : MuteViewer(v, FALSE)
    \/ \E v \in Registry : UnmuteViewer(v, FALSE)
    \/ StartSharing
    \/ DisplaySettled(TRUE)
    \/ MicSettled(TRUE)
    \/ ControlsEndMeeting

SpecPresenterControls == Init /\ [][NextPresenterControls]_vars

(***************************************************************************)
(* The activity log: addViewerActivity, lines 107-125, and the expiry      *)
(* timers it sets.  The handlers of the session record their events by     *)
(* calling addViewerActivity (the activity entries of ops); here the log   *)
(* is driven by those calls alone, whichever handler makes them.           *)
(***************************************************************************)

\* The latest value of Date.now() at which an event is recorded.
MaxClock == 2

\* Expiry timers pending at once.
MaxTimers == 6

\* A viewer's peer id, "viewer-<room>-<suffix>", as its '-' separated
\* segments.
PeerId(v) == <<"viewer", "r1", v>>

\* viewerId.split('-').pop(), line 110.
shortId(viewerId) == viewerId[Len(viewerId)]

\* prev.slice(-4)
lastFour(prev) ==
    IF Len(prev) <= 4 THEN prev ELSE SubSeq(prev, Len(prev) - 3, Len(prev))

\* recordActivity keeping the last five events before appending.
recordActivity_keepFive(prev, activity) ==
    (IF Len(prev) <= 5 THEN prev ELSE SubSeq(prev, Len(prev) - 4, Len(prev)))
    \o <<activity>>

\* The updater of line 114: [...prev.slice(-4), activity].
recordActivity(prev, activity) == lastFour(prev) \o <<activity>>

\* expireActivity dropping the oldest event, whatever its timestamp.
expireActivity_dropOldest(prev, timestamp) ==
    IF prev = <<>> THEN prev ELSE Tail(prev)

\* The updater of the timer, line 123: the events of another timestamp.
expireActivity(prev, timestamp) ==
    SelectSeq(prev, LAMBDA a : a.timestamp # timestamp)

\* addViewerActivity(type, viewerId) is called by a handler.
AddViewerActivity(type, viewerId) ==
    /\ now <= MaxClock
    /\ Len(activityTimers) < MaxTimers
    /\ recentActivity' =
           recordActivity(recentActivity,
                          [type |-> type, viewerId |-> shortId(viewerId),
                           timestamp |-> now])
    /\ activityTimers' = Append(activityTimers, now)
    /\ ops' = addViewerActivity(type, shortId(viewerId))
    /\ UNCHANGED <<status, isSharing, viewerCount, error, mutedViewers,
                   peerRef, streamRef, viewerConnections, viewerMediaCalls,
                   viewerAudioElements, isSpeakerMuted, mounted,
                   dataListener, callListener, pendingShares, avars, now,
                   mvars, tvars, vvars>>

\* The oldest pending expiry timer fires (timers of one delay fire in the
\* order they were set); the clock has moved on since it was set.
ActivityTimeout ==
    /\ activityTimers # <<>>
    /\ recentActivity' = expireActivity(recentActivity, Head(activityTimers))
    /\ activityTimers' = Tail(activityTimers)
    /\ now' = IF now > Head(activityTimers) THEN now ELSE now + 1
    /\ ops' = << <<"expired", Head(activityTimers)>> >>
    /\ UNCHANGED <<status, isSharing, viewerCount, error, mutedViewers,
                   peerRef, streamRef, viewerConnections, viewerMediaCalls,
                   viewerAudioElements, isSpeakerMuted, mounted,
                   dataListener, callListener, pendingShares, avars, mvars,
                   tvars, vvars>>

\* Time passes.
Tick ==
    /\ now < MaxClock
    /\ now' = now + 1
    /\ ops' = <<>>
    /\ UNCHANGED <<status, isSharing, viewerCount, error, mutedViewers,
                   peerRef, streamRef, viewerConnections, viewerMediaCalls,
                   viewerAudioElements, isSpeakerMuted, mounted,
                   dataListener, callListener, pendingShares, avars,
                   recentActivity, activityTimers, mvars, tvars, vvars>>

NextActivity ==
    \/ \E type \in {"join", "leave"}, v \in Viewers :
          AddViewerActivity(type, PeerId(v))
    \/ ActivityTimeout
    \/ Tick

SpecActivity == Init /\ [][NextActivity]_vars

\* The browser fires every timer that has been set.
SpecActivityLive == SpecActivity /\ WF_vars(ActivityTimeout)

(***************************************************************************)
(* Room changes: the presenter page is opened on one room and then on      *)
(* another while the session is used.  The signaling link never drops      *)
(* here, so signal = "open" says that the identity claim of the peer in    *)
(* peerRef has been confirmed.                                             *)
(***************************************************************************)

NextRoom ==
    \/ MountElsewhere
    \/ \E r \in Rooms : MountPresenterPage(r)
    \/ \E r \in Rooms : InitializeRoom(r, FALSE)
    \/ PeerOpen
    \/ PeerError
    \/ \E v \in Viewers : Connection(v)
    \/ \E v \in Viewers : ConnOpen(v)
    \/ StartSharing
    \/ \E granted \in BOOLEAN : DisplaySettled(granted)
    \/ \E granted \in BOOLEAN : MicSettled(granted)
    \/ StopSharing
    \/ EndMeeting(FALSE)

SpecRoom == Init /\ [][NextRoom]_vars

(***************************************************************************)
(* The presenter's media links followed one by one: every call placed by   *)
(* callViewer stays open until the presenter closes it through its handle  *)
(* or the far side ends it.  Viewers join and leave, shares are started     *)
(* (also twice at once), stopped and the meeting is ended.                  *)
(***************************************************************************)

NextCalls ==
    \/ MountPresenterPage("r1")
    \/ PeerOpen
    \/ \E v \in Viewers : Connection(v)
    \/ \E v \in Viewers : ConnOpen(v)
    \/ \E v \in Viewers : ConnClose(v)
    \/ \E v \in Viewers : MediaCallClosed(v)
    \/ StartSharing
    \/ DisplaySettled(TRUE)
    \/ \E granted \in BOOLEAN : MicSettled(granted)
    \/ StopSharing
    \/ EndMeeting(FALSE)

SpecCalls == InitCalls /\ [][NextCalls]_vars

(***************************************************************************)
(* Claims.                                                                 *)
(***************************************************************************)

\* C1: after every processed event (control-link open, close and error,
\* endMeeting, stopSharing, startSharing and the rest of the session's
\* handlers) the published viewerCount equals the number of records in
\* viewerConnections.
C1_CountIsRegistrySize == viewerCount = Cardinality(Registry)

\* C1 witness: one viewer is registered and counted after the other one's
\* control link has opened and then closed or failed.
C1_Witness ==
    \E v, w \in Viewers :
        /\ v # w
        /\ Registry = {v}
        /\ viewerCount = 1
        /\ link[w] = "closed"
        /\ hnd[w] # "none"

\* C2: a viewer has a record in the registry if and only if its control
\* link to the presenter peer is open, whenever after initializeRoom the
\* viewer connects.
C2_RecordIffLinkOpen ==
    \A v \in Viewers : (v \in Registry) <=> (link[v] = "open")

\* C3: when startSharing completes with N viewers registered it places
\* exactly N media-link attempts, one per registered viewer, and none to a
\* viewer that already has a media link from an earlier invocation that was
\* awaiting media acquisition at the same time.
C3_FanOutOncePerViewer ==
    [][\A granted \in BOOLEAN :
         MicSettled(granted) =>
           \A v \in Viewers :
             /\ Cardinality(CallsTo(ops', v)) = IF v \in Registry THEN 1 ELSE 0
             /\ v \in Registry => v \notin viewerMediaCalls]_vars

\* C4: a viewer whose control link opens while sharing is active (outbound
\* stream set, isSharing true) is registered and called in that same open
\* handler, also when its connection arrived before sharing started.
C4_LateJoinIsCalled ==
    [][\A v \in Viewers :
         (ConnOpen(v) /\ streamRef # "null" /\ isSharing) =>
           (v \in DOMAIN viewerConnections' /\ CallsTo(ops', v) # {})]_vars

\* C5: endMeeting sends meeting-ended to every viewer registered when it is
\* called, and for each of them before it closes that viewer's control link
\* and before it removes that viewer's record.
C5_EndedSentBeforeClose ==
    [][EndMeeting(FALSE) =>
         \A v \in Registry :
           \E i, j, k \in 1..Len(ops') :
             /\ i < j /\ j < k
             /\ ops'[i] = <<"send", v, "meeting-ended">>
             /\ ops'[j] = <<"closeConn", v>>
             /\ ops'[k] = <<"delete", v>>]_vars

\* C5 witness: an endMeeting that found both viewers registered has told
\* both and closed both links.
C5_Witness ==
    /\ \A v \in Viewers :
         /\ SentTo(ops, v, "meeting-ended") # {}
         /\ \E j \in 1..Len(ops) : ops[j] = <<"closeConn", v>>
         /\ link[v] = "closed"
    /\ Registry = {}

C7_MuteTouchesOneViewer ==
    [][\A v \in Viewers :
         (MuteViewer(v, FALSE) /\ v \in Registry /\ link[v] = "open") =>
           /\ ops' = << <<"send", v, "viewer-muted">> >>
           /\ viewerConnections' =
                  [viewerConnections EXCEPT ![v].isMutedByPresenter = TRUE]
           /\ viewerCount' = viewerCount
           /\ status' = status]_vars

\* C7 witness: with two viewers registered, one was just muted and the other
\* one's record still says unmuted.
C7_Witness ==
    \E v, w \in Viewers :
        /\ v # w
        /\ Registry = {v, w}
        /\ ops = << <<"send", v, "viewer-muted">> >>
        /\ viewerConnections[v].isMutedByPresenter
        /\ ~viewerConnections[w].isMutedByPresenter

\* C8: a second unmuteViewer(id) right after a first leaves the registry
\* records, their flags, the muted-viewer set, viewerCount and status as the
\* first left them, for registered and unregistered ids.
C8_UnmuteTwiceIsOnce ==
    [][\A v \in Viewers :
         UnmuteViewer(v, FALSE) =>
           LET again == unmuteViewerState(viewerConnections', mutedViewers', v)
           IN  /\ again.viewerConnections = viewerConnections'
               /\ again.mutedViewers = mutedViewers'
               /\ viewerCount' = viewerCount
               /\ status' = status]_vars

\* C8 witness: a registered viewer that the presenter had muted was just
\* unmuted, while an id without a record is still in the muted set.
C8_Witness ==
    \E v, w \in Viewers :
        /\ v \in Registry
        /\ ops = << <<"send", v, "viewer-unmuted">> >>
        /\ ~viewerConnections[v].isMutedByPresenter
        /\ v \notin mutedViewers
        /\ w \notin Registry
        /\ w \in mutedViewers

\* C9: for every viewer whose presenter-side record has isMutedByPresenter
\* set, once the viewer has read every control message sent to it, its
\* outbound audio track is disabled or absent, whatever the viewer does with
\* enableMicrophone, toggleMicMute and disableMicrophone.  A viewer that has
\* left sends nothing (its peer is destroyed), so it is not counted.
C9_MutedViewerIsSilent ==
    \A v \in Viewers :
        (/\ v \in Registry
         /\ viewerConnections[v].isMutedByPresenter
         /\ inbox[v] = <<>>
         /\ vStatus[v] # "left")
        => vMicTrack[v] # "enabled"

\* C10: in the viewer, from the processing of viewer-muted until the
\* processing of viewer-unmuted (isMutedByPresenter set), the outbound audio
\* track is never enabled, also when viewer-muted arrives while
\* enableMicrophone is awaiting the microphone.
C10_NoAudioWhileMutedByPresenter ==
    \A v \in Viewers : vMutedByPresenter[v] => vMicTrack[v] # "enabled"

\* C11: a control message for a viewer that has no record, or whose control
\* link is not open, is dropped: the handler sends nothing, nothing is put
\* on the wire for that viewer then or later (a message reaches a viewer's
\* wire only in a step that finds it registered with an open link), and
\* neither status nor error changes because of the drop.
C11_UnreachableViewerGetsNothing ==
    [][\A v \in Viewers :
         LET reachable == v \in Registry /\ link[v] = "open"
         IN  /\ Len(inbox'[v]) > Len(inbox[v]) => reachable
             /\ ((MuteViewer(v, TRUE) \/ UnmuteViewer(v, TRUE)) /\ ~reachable)
                  => /\ ops' = <<>>
                     /\ inbox' = inbox
                     /\ status' = status
                     /\ error' = error
             /\ (EndMeeting(TRUE) /\ ~reachable)
                  => /\ MessagesFor(ops', v) = <<>>
                     /\ error' = error]_vars

\* C11 witness: a mute of a viewer that had no record was dropped (the
\* viewer is in mutedViewers and its record, created later, is not muted),
\* the viewer has since opened its control link and has received nothing.
C11_Witness ==
    \E v \in Viewers :
        /\ v \in Registry
        /\ link[v] = "open"
        /\ v \in mutedViewers
        /\ ~viewerConnections[v].isMutedByPresenter
        /\ inbox[v] = <<>>
        /\ ~vMutedByPresenter[v]
        /\ vStatus[v] = "waiting"

\* C12: a control-link close or error processed for a viewer id that has no
\* record (close after error, close after endMeeting) changes nothing: the
\* registry, the media handles, the audio sinks, the muted set, viewerCount
\* and status stay as they are and no activity event is recorded.
C12_AbsentViewerCloseIsNoOp ==
    [][\A v \in Viewers :
         ((ConnClose(v) \/ ConnError(v)) /\ v \notin Registry) =>
           /\ UNCHANGED <<viewerConnections, viewerMediaCalls,
                          viewerAudioElements, mutedViewers, viewerCount,
                          status>>
           /\ \A w \in Viewers : /\ ActivityOf(ops', "join", w) = {}
                                   /\ ActivityOf(ops', "leave", w) = {}]_vars

\* C13: when a viewer's control link closes or fails while the presenter
\* holds a media link to that viewer, the handler closes that media link
\* (so that no open presenter-initiated media link is left to a viewer
\* without a record).
C13_GoneViewerMediaLinkIsClosed ==
    [][\A v \in Viewers :
         ((ConnClose(v) \/ ConnError(v)) /\ v \in viewerMediaCalls) =>
           \E i \in 1..Len(ops') : ops'[i] = <<"closeCall", v>>]_vars

\* C14: every insertion of a viewer record records exactly one join event,
\* every removal of a record by a control-link close or error records
\* exactly one leave event, and a leave is recorded for a viewer only by the
\* close of a link whose opening recorded its join, so that leaves never
\* outnumber joins.
C14_OneJoinOneLeave ==
    [][\A v \in Viewers :
         /\ (ConnOpen(v) /\ v \in DOMAIN viewerConnections')
              => Cardinality(ActivityOf(ops', "join", v)) = 1
         /\ ((ConnClose(v) \/ ConnError(v)) /\ v \in Registry)
              => Cardinality(ActivityOf(ops', "leave", v)) = 1
         /\ ActivityOf(ops', "leave", v) # {}
              => /\ link[v] \in {"open", "failed"}
                 /\ hnd[v] # "none"
                 /\ Cardinality(ActivityOf(ops', "leave", v)) = 1]_vars

C16_ErrorStaysUntilRestart ==
    [][(status = "error" /\ status' = "ready") => error' = "null"]_vars

\* C17: status becomes sharing only in a step that starts from status ready
\* and stores an outbound stream (which always has the video track); never
\* from idle, connecting or error, also when a transport error arrives
\* while startSharing awaits media acquisition.
C17_SharingOnlyFromReady ==
    [][(status' = "sharing" /\ status # "sharing") =>
         (status = "ready" /\ streamRef' # "null")]_vars

\* C18: in every reachable state the outbound stream is present exactly when
\* status is sharing, and a stream is stored only where none is live, so
\* that at most one outbound stream is live at a time.
C18_StreamIffSharing ==
    /\ []((streamRef # "null") <=> (status = "sharing"))
    /\ [][\A granted \in BOOLEAN : MicSettled(granted) => streamRef = "null"]_vars

\* C19: when display capture is denied or gives no video track, startSharing
\* records an error and changes nothing else: status (ready when it was
\* invoked), isSharing, the outbound stream, the registry and the media
\* handles are as before and no media link is attempted.
C19_DeniedCaptureOnlyRecordsError ==
    [][DisplaySettled(FALSE) =>
         /\ error' # "null"
         /\ UNCHANGED <<status, isSharing, streamRef, viewerConnections,
                        viewerMediaCalls, viewerCount>>
         /\ ops' = <<>>]_vars

\* C19 witness: a share was refused with a viewer registered; the error is
\* recorded, status is ready, nothing is shared and no viewer was called.
C19_Witness ==
    /\ error = "share"
    /\ status = "ready"
    /\ ~isSharing
    /\ streamRef = "null"
    /\ Registry # {}
    /\ viewerMediaCalls = {}
    /\ pendingShares = [display |-> 0, mic |-> 0]

\* C20: when display capture gives a video track and the microphone is
\* denied, startSharing reaches status sharing with a video-only outbound
\* stream, calls every registered viewer, and sets neither error nor status
\* error.
C20_MicDenialIsNotFatal ==
    [][MicSettled(FALSE) =>
         /\ status' = "sharing"
         /\ isSharing'
         /\ streamRef' = "video"
         /\ error' = error
         /\ \A v \in Registry :
              /\ CallsTo(ops', v) # {}
              /\ v \in viewerMediaCalls']_vars

\* C20 witness: a video-only share has just called both registered viewers
\* and no error is recorded.
C20_Witness ==
    /\ status = "sharing"
    /\ isSharing
    /\ streamRef = "video"
    /\ error = "null"
    /\ Registry = Viewers
    /\ viewerMediaCalls = Viewers
    /\ Len(ops) = Cardinality(Viewers)
    /\ \A v \in Viewers : CallsTo(ops, v) # {}

\* C21: from every reachable state in which sharing is active, the end of
\* the capture from outside (the video track's ended callback) leaves the
\* presenter in exactly the state an explicit stopSharing called in that
\* state leaves it in, also when status has meanwhile become error.
C21_TrackEndedIsStopSharing ==
    [][(isSharing /\ TrackEnded) => StopSharing]_vars

\* C23: a viewer audio sink becomes unmuted, and isViewerAudioEnabled
\* becomes true, only in an enableViewerAudio step or a speaker unmute
\* (toggleSpeakerMute); no stream-received event, join or other transport
\* event makes a sink audible or sets isViewerAudioEnabled.
C23_AudibleOnlyByPresenterAction ==
    [][(\/ isViewerAudioEnabled' /\ ~isViewerAudioEnabled
        \/ \E v \in viewerAudioElements' \ mutedAudioElements' :
              v \notin viewerAudioElements \/ v \in mutedAudioElements)
       => (EnableViewerAudio \/ ToggleSpeakerMute)]_vars

\* C22: in the mixing presenter, after every processed event (inbound
\* stream received, inbound media call closed, control link closed or
\* failed, endMeeting) the streams feeding the published mixed output are
\* exactly those of the inbound audio set viewerAudioStreams; the mix holds
\* no audio of a removed viewer and is empty when the set is empty.
C22_MixIsInboundAudioSet == mixedOutput = DOMAIN viewerAudioStreams

\* C24: a viewer id enters the inbound audio set (the provider's audio
\* sinks, the mixing presenter's viewerAudioStreams) only in a
\* stream-received step whose stream carries an audio track; answering a
\* call or receiving a stream without audio adds no entry.
C24_OnlyAudioStreamsEnter ==
    [][\A v \in Viewers :
         /\ (v \in viewerAudioElements' /\ v \notin viewerAudioElements)
              => CallStream(v, TRUE)
         /\ (v \in DOMAIN viewerAudioStreams'
              /\ v \notin DOMAIN viewerAudioStreams)
              => MixerCallStream(v, TRUE)]_vars

\* C25: the activity log never holds more than 5 events, and an event
\* recorded while 5 are held drops the oldest one: the other four keep
\* their order and the new event is last.
C25_LogKeepsLastFive ==
    /\ [](Len(recentActivity) <= 5)
    /\ [][\A type \in {"join", "leave"}, v \in Viewers :
            (AddViewerActivity(type, PeerId(v)) /\ Len(recentActivity) = 5) =>
              /\ Len(recentActivity') = 5
              /\ SubSeq(recentActivity', 1, 4) = Tail(recentActivity)
              /\ recentActivity'[5] =
                    [type |-> type, viewerId |-> v, timestamp |-> now]]_vars

\* C25 witness: six events were recorded and none has expired; the log
\* holds five, the first recorded is gone and the latest is last.
C25_Witness ==
    /\ Len(activityTimers) = 6
    /\ Len(recentActivity) = 5
    /\ recentActivity[1].timestamp = 0
    /\ recentActivity[5].timestamp = activityTimers[6]
    /\ recentActivity[5].timestamp > 0

\* The events the log can hold.
ActivityEvents ==
    [type : {"join", "leave"}, viewerId : Viewers, timestamp : 0..MaxClock]

InLog(e) == \E i \in 1..Len(recentActivity) : recentActivity[i] = e

\* C26: every recorded activity event is eventually removed from the log
\* (by its timer or by trimming), the log is eventually empty and stays
\* so once recording has stopped, and the timer of one event removes no
\* event recorded at another time, whatever its viewer: those events are
\* in the log afterwards as before, in the same order.
C26_EveryEventExpires ==
    /\ \A e \in ActivityEvents : InLog(e) ~> ~InLog(e)
    /\ <>[](recentActivity = <<>>)
    /\ [][ActivityTimeout =>
            LET other(a) == a.timestamp # Head(activityTimers)
            IN  SelectSeq(recentActivity', other)
                  = SelectSeq(recentActivity, other)]_vars

\* C26 witness: the timer of the event recorded at time 0 has just fired
\* and removed it, and the event that the same viewer recorded at time 1
\* is still in the log, its own timer pending.
C26_Witness ==
    /\ ops = << <<"expired", 0>> >>
    /\ activityTimers = <<1>>
    /\ recentActivity =
          << [type |-> "leave", viewerId |-> "v1", timestamp |-> 1] >>

\* C27: when the viewer processes meeting-ended its status becomes ended and
\* its resources are released: the microphone stream is stopped and
\* dropped, the microphone call, the media call and the control link are
\* closed, and the video sink is cleared.
C27_MeetingEndedReleasesAll ==
    [][\A v \in Viewers :
         (ViewerReceive(v) /\ Head(inbox[v]) = "meeting-ended") =>
           /\ vStatus'[v] = "ended"
           /\ vMicTrack'[v] = "null"
           /\ ~vMicCall'[v]
           /\ ~vCall'[v]
           /\ ~vConn'[v]
           /\ ~vVideo'[v]]_vars

\* C27 witness: a viewer that was receiving the stream with its microphone
\* on (isMicEnabled is still set) has just read meeting-ended and holds
\* nothing any more.
C27_Witness ==
    \E v \in Viewers :
        /\ ops = << <<"data", v, "meeting-ended">> >>
        /\ vIsMicEnabled[v]
        /\ vStatus[v] = "ended"
        /\ vMicTrack[v] = "null"
        /\ ~vMicCall[v] /\ ~vCall[v] /\ ~vConn[v] /\ ~vVideo[v]

\* C28: a control message of a type other than meeting-ended, viewer-muted
\* and viewer-unmuted leaves the whole state of the viewer as it is
\* (status, isMutedByPresenter, the microphone track and its flags, the
\* connections, the video sink); no error state is entered.
C28_UnknownMessageIsIgnored ==
    [][\A v \in Viewers :
         (/\ ViewerReceive(v)
          /\ Head(inbox[v])
                \notin {"meeting-ended", "viewer-muted", "viewer-unmuted"})
         => UNCHANGED vvars]_vars

\* C28 witness: a viewer muted by the presenter, receiving the stream with
\* its microphone on, has just read a message of an unknown type.
C28_Witness ==
    \E v \in Viewers :
        /\ ops = << <<"data", v, "unknown">> >>
        /\ vStatus[v] = "receiving"
        /\ vMutedByPresenter[v]
        /\ vMicTrack[v] = "disabled"
        /\ vConn[v] /\ vCall[v] /\ vMicCall[v] /\ vVideo[v]

\* C29: a transport disconnect, the reconnect and the renewed 'open' leave
\* the presenter session as it was before the disconnect: the registry,
\* the media-link handles, the mute flags, viewerCount, the outbound
\* stream, isSharing and status (status sharing in particular) are
\* unchanged by the disconnect and by the 'open' that follows it.
C29_ReconnectKeepsSession ==
    [][(PeerDisconnected \/ (PeerOpen /\ ops = << <<"reconnect">> >>)) =>
         UNCHANGED <<viewerConnections, viewerMediaCalls, mutedViewers,
                     viewerCount, streamRef, isSharing, status>>]_vars

\* C30: when a presenter-initiated media link to viewer v closes or fails,
\* v's media-link handle is removed, v's record is kept and no new attempt
\* is made; a media-link attempt to a viewer is made only by the broadcast
\* of a start-sharing or by the opening of that viewer's control link, and
\* the broadcast does call every registered viewer, v included.
C30_ClosedMediaLinkWaitsForBroadcast ==
    [][\A v \in Viewers :
         /\ MediaCallClosed(v) =>
              /\ v \notin viewerMediaCalls'
              /\ viewerConnections' = viewerConnections
              /\ ops' = <<>>
         /\ CallsTo(ops', v) # {} =>
              \/ \E granted \in BOOLEAN : MicSettled(granted)
              \/ ConnOpen(v)
         /\ ((\E granted \in BOOLEAN : MicSettled(granted)) /\ v \in Registry)
              => /\ CallsTo(ops', v) # {}
                 /\ v \in viewerMediaCalls']_vars

\* C30 witness: during a share a viewer that was called (its control link
\* was attached while sharing) has its record and an open control link but
\* no media-link handle any more, and nothing was attempted since.
C30_Witness ==
    \E v \in Viewers :
        /\ v \in Registry
        /\ link[v] = "open"
        /\ hnd[v] = "T"
        /\ streamRef # "null"
        /\ isSharing
        /\ v \notin viewerMediaCalls
        /\ ops = <<>>

\* C31: stopSharing closes every tracked media link, empties the media-link
\* map, releases the outbound stream and sets isSharing false, and leaves
\* the registry with every isMutedByPresenter flag, the muted-viewer set,
\* viewerCount and the inbound audio sinks as they were; a startSharing that
\* completes calls exactly the registered viewers, so the one after a stop
\* fans out to the same viewers.
C31_StopSharingKeepsViewers ==
    [][/\ StopSharing =>
            /\ \A v \in viewerMediaCalls :
                  \E i \in 1..Len(ops') : ops'[i] = <<"closeCall", v>>
            /\ viewerMediaCalls' = {}
            /\ streamRef' = "null"
            /\ ~isSharing'
            /\ UNCHANGED <<viewerConnections, mutedViewers, viewerCount,
                           viewerAudioElements, mutedAudioElements>>
       /\ \A granted \in BOOLEAN :
            MicSettled(granted) =>
              \A v \in Viewers : (CallsTo(ops', v) # {}) <=> (v \in Registry)]_vars

\* C31 witness: sharing has just been stopped (the media calls were closed,
\* no stream, not sharing) in a session with two registered viewers, one of
\* them muted by the presenter, and an inbound audio sink.
C31_Witness ==
    /\ \E i \in 1..Len(ops) : ops[i][1] = "closeCall"
    /\ ~isSharing
    /\ streamRef = "null"
    /\ viewerMediaCalls = {}
    /\ Registry = Viewers
    /\ viewerCount = 2
    /\ \E v \in Registry : viewerConnections[v].isMutedByPresenter
    /\ mutedViewers # {}
    /\ viewerAudioElements # {}

\* C32: initializeRoom(r) on a session already bound to r with a live peer
\* changes nothing; with another room it ends the meeting (meeting-ended to
\* every open link, registry and media links emptied, no stream, not
\* sharing) and destroys the old peer, then binds r with status connecting
\* and the error cleared, the only peer being the new one; and status is
\* ready only once the identity claim of the session's peer is confirmed.
C32_RoomSwitchesCleanly ==
    /\ [](status = "ready" => signal = "open")
    /\ [][\A r \in Rooms :
            InitializeRoom(r, FALSE) =>
              IF peerRef = r
              THEN UNCHANGED <<pvars, tvars>>
              ELSE /\ peerRef # "null" =>
                        /\ ops'[Len(ops')] = <<"destroy">>
                        /\ \A v \in Registry :
                              link[v] = "open" => SentTo(ops', v, "meeting-ended") # {}
                        /\ viewerConnections' = EmptyMap
                        /\ viewerMediaCalls' = {}
                        /\ streamRef' = "null"
                        /\ ~isSharing'
                        /\ \A v \in Viewers : link'[v] \in {"none", "closed"}
                   /\ status' = "connecting"
                   /\ error' = "null"
                   /\ peerRef' = r
                   /\ signal' = "connecting"]_vars

\* C33: when the viewer processes viewer-unmuted while its microphone is on
\* and not locally muted (the state at the time the message is read), its
\* outbound audio track is enabled afterwards; with the microphone off or
\* locally muted the track is left as it was.
C33_UnmuteRestoresLiveMicrophone ==
    [][\A v \in Viewers :
         (ViewerReceive(v) /\ Head(inbox[v]) = "viewer-unmuted") =>
           IF vMicTrack[v] # "null" /\ vIsMicEnabled[v] /\ ~vIsMicMuted[v]
           THEN vMicTrack'[v] = "enabled"
           ELSE vMicTrack'[v] = vMicTrack[v]]_vars

\* C34: every open media call placed by callViewer has its handle in the
\* media-link map (one open call at most per viewer, tracked), so that after
\* stopSharing or endMeeting no presenter-initiated media link is open;
\* also when close events of earlier calls arrive after later calls to the
\* same viewer and when startSharing invocations overlap.
C34_NoMediaLinkOutlivesTheShare ==
    /\ [](\A v \in DOMAIN openCalls :
            openCalls[v] = IF v \in viewerMediaCalls THEN 1 ELSE 0)
    /\ [][(StopSharing \/ EndMeeting(FALSE)) =>
            \A v \in DOMAIN openCalls : openCalls'[v] = 0]_vars

\* C35: in every reachable state the published muted-viewer set is the set
\* of registered viewers whose record has isMutedByPresenter set; it never
\* holds an id without a record, whatever ids muteViewer and unmuteViewer
\* are called with and however control links open, close and fail.
C35_MutedSetMatchesRegistry ==
    mutedViewers = {v \in Registry : viewerConnections[v].isMutedByPresenter}

\* C36: in every reachable state every viewer with a media-link handle in
\* viewerMediaCalls has a record in the registry.
C36_MediaHandleHasRecord == viewerMediaCalls \subseteq Registry

\* C36 witness: during a share one viewer has a handle (and a record) while
\* the control link of another viewer, called in the same share, has just
\* closed: its close handler ran and it has neither record nor handle.
C36_Witness ==
    /\ isSharing
    /\ \E v \in viewerMediaCalls : v \in Registry
    /\ \E w \in Viewers :
          /\ link[w] = "closed"
          /\ hnd[w] = "T"
          /\ ActivityOf(ops, "leave", w) # {}
          /\ w \notin Registry
          /\ w \notin viewerMediaCalls

\* C37: in every reachable state every viewer with an inbound audio entry
\* (an audio sink, or a stored stream in the mixing presenter) has a record
\* in the registry: a call or stream from a peer without an open control
\* link, or arriving after the link closed or the meeting ended, leaves no
\* entry behind.
C37_AudioEntryHasRecord ==
    /\ viewerAudioElements \subseteq Registry
    /\ DOMAIN viewerAudioStreams \subseteq Registry

\* C38: in the provider every existing viewer audio sink has
\* muted = isSpeakerMuted, whatever the order of toggleSpeakerMute,
\* enableViewerAudio and the stream events of inbound calls, also for a sink
\* created by the stream handler of a call answered before the last toggle.
C38_SinksFollowSpeakerMute ==
    \A v \in viewerAudioElements : (v \in mutedAudioElements) <=> isSpeakerMuted

\* C39: once leaveMeeting has run the viewer's status is left and stays left:
\* the close events of the control link and of the media call, those that
\* leaveMeeting causes and those that come after it, do not replace left by
\* ended (or by anything else).
C39_LeftIsFinal ==
    [][\A v \in Viewers :
          /\ LeaveMeeting(v) => vStatus'[v] = "left"
          /\ vStatus[v] = "left" => vStatus'[v] = "left"]_vars

\* A viewer left while it was receiving, so that the leave closed its media
\* call and its control link (the microphone request it made while
\* receiving is still pending), and the presenter has ended the meeting for
\* it: its link is closed on the presenter's side and the end-of-meeting
\* message sent to it was never read.
C39_Witness ==
    \E v \in Viewers :
        /\ vStatus[v] = "left"
        /\ vMicPending[v] # "none"
        /\ ~vConn[v] /\ ~vCall[v] /\ ~vVideo[v]
        /\ link[v] = "closed"
        /\ inbox[v] # <<>>
        /\ inbox[v][Len(inbox[v])] = "meeting-ended"

====
